---------------------------- MODULE Spec2Model ----------------------------
(***************************************************************************)
(* Proximal Langevin Monte Carlo samplers (prox_lmc.py) and the proximal   *)
(* operator library they use (prox.py).                                    *)
(*                                                                         *)
(* Numbers.  In prox.py a number is an extended rational <<n, d>> in       *)
(* lowest terms with d >= 0.  d = 0 encodes the non-finite float64 values: *)
(* <<1,0>> is +inf, <<-1,0>> is -inf and <<0,0>> is NaN, with numpy's      *)
(* rules for them (x/0 = +-inf, 0/0 = NaN, NaN propagates, comparisons     *)
(* with NaN are false).  The closed forms of prox.py are evaluated         *)
(* exactly.  In prox_lmc.py a number is an integer k standing for          *)
(* k/FScale: the sampler arithmetic rounds every product, quotient and     *)
(* transcendental to that grid and overflows to +-inf beyond FMax, the     *)
(* way float64 rounds to 53 bits and overflows beyond 1.8e308.             *)
(***************************************************************************)
EXTENDS Integers, Sequences, FiniteSets, TLC

VARIABLES pin, pout, obj, inv

vars == <<pin, pout, obj, inv>>

-----------------------------------------------------------------------------
(* Extended rational arithmetic (numpy float64 semantics, exact).          *)

Abs(n) == IF n < 0 THEN -n ELSE n

Sgn(n) == IF n < 0 THEN -1 ELSE IF n > 0 THEN 1 ELSE 0

RECURSIVE GCD(_, _)
GCD(a, b) == IF b = 0 THEN a ELSE GCD(b, a % b)

Q(n, d) ==
    IF d = 0 THEN <<Sgn(n), 0>>
    ELSE LET g == GCD(Abs(n), Abs(d))
         IN  <<(Sgn(d) * n) \div g, Abs(d) \div g>>

NaN == <<0, 0>>
PInf == <<1, 0>>
NInf == <<-1, 0>>
Zero == <<0, 1>>
One == <<1, 1>>

IsNaN(a) == a = NaN
IsFinite(a) == a[2] # 0

QNeg(a) == <<-a[1], a[2]>>

QAdd(a, b) ==
    IF IsNaN(a) \/ IsNaN(b) THEN NaN
    ELSE IF a[2] = 0 THEN (IF b[2] = 0 /\ b # a THEN NaN ELSE a)
    ELSE IF b[2] = 0 THEN b
    ELSE Q(a[1] * b[2] + b[1] * a[2], a[2] * b[2])

QSub(a, b) == QAdd(a, QNeg(b))

QMul(a, b) == Q(a[1] * b[1], a[2] * b[2])

QDiv(a, b) == Q(a[1] * b[2] * (IF b[1] < 0 THEN -1 ELSE 1), a[2] * Abs(b[1]))

QLe(a, b) ==
    IF IsNaN(a) \/ IsNaN(b) THEN FALSE
    ELSE IF a[2] = 0 /\ b[2] = 0 THEN a[1] <= b[1]
    ELSE a[1] * b[2] <= b[1] * a[2]

QLt(a, b) == QLe(a, b) /\ a # b

QAbs(a) == <<Abs(a[1]), a[2]>>

QSign(a) == IF IsNaN(a) THEN NaN ELSE <<Sgn(a[1]), 1>>

QMax(a, b) == IF IsNaN(a) \/ IsNaN(b) THEN NaN ELSE IF QLe(a, b) THEN b ELSE a

RECURSIVE ISqrtIn(_, _, _)
ISqrtIn(n, lo, hi) ==
    IF hi - lo <= 1 THEN lo
    ELSE LET mid == (lo + hi) \div 2
         IN  IF mid * mid <= n THEN ISqrtIn(n, mid, hi) ELSE ISqrtIn(n, lo, mid)

ISqrt(n) == ISqrtIn(n, 0, 46340)

IsSquare(n) == ISqrt(n) * ISqrt(n) = n

(* np.sqrt: exact on a rational whose numerator and denominator are       *)
(* squares, NaN on a negative number, otherwise rounded down to the grid.  *)
QSqrt(a) ==
    IF IsNaN(a) \/ a[1] < 0 THEN NaN
    ELSE IF a[2] = 0 THEN PInf
    ELSE IF IsSquare(a[1]) /\ IsSquare(a[2]) THEN <<ISqrt(a[1]), ISqrt(a[2])>>
    ELSE Q(ISqrt((a[1] * 4096) \div a[2]), 64)

RECURSIVE ICbrtIn(_, _, _)
ICbrtIn(n, lo, hi) ==
    IF hi - lo <= 1 THEN lo
    ELSE LET mid == (lo + hi) \div 2
         IN  IF mid * mid * mid <= n THEN ICbrtIn(n, mid, hi) ELSE ICbrtIn(n, lo, mid)

ICbrt(n) == ICbrtIn(n, 0, 1291)

IsCube(n) == ICbrt(n) * ICbrt(n) * ICbrt(n) = n

(* a ** (1/3): NaN on a negative number, exact on a rational whose         *)
(* numerator and denominator are cubes, otherwise rounded down to the grid. *)
QCbrt(a) ==
    IF IsNaN(a) \/ a[1] < 0 THEN NaN
    ELSE IF a[2] = 0 THEN PInf
    ELSE IF IsCube(a[1]) /\ IsCube(a[2]) THEN <<ICbrt(a[1]), ICbrt(a[2])>>
    ELSE Q(ICbrt((a[1] * 262144) \div a[2]), 64)

-----------------------------------------------------------------------------
(* prox.py: the proximal operator library.                                 *)

(* What a call gives back: a value, or the exception it raises.            *)
Ok(v) == [raised |-> FALSE, exc |-> "none", val |-> v]

Exc(e) == [raised |-> TRUE, exc |-> e, val |-> NaN]

(* Mutants of prox_laplace: the clamp at 0 forgotten; hard thresholding.    *)
prox_laplace_noclamp(x, gamma) ==
    QMul(QSign(x), QSub(QAbs(x), gamma))

prox_laplace_hard(x, gamma) ==
    IF QLe(QAbs(x), gamma) THEN Zero ELSE x

prox_laplace(x, gamma) ==
    QMul(QSign(x), QMax(QSub(QAbs(x), gamma), Zero))

prox_uncentered_laplace(x, gamma, mu) ==
    QAdd(mu, prox_laplace(QSub(x, mu), gamma))

prox_gaussian(x, gamma) ==
    QDiv(x, QAdd(QMul(Q(2, 1), gamma), One))

(* Mutant of prox_huber: the outside shift without the square root.        *)
prox_huber_shift(x, gamma, tau) ==
    IF QLe(QAbs(x), QDiv(QMul(gamma, QAdd(QMul(Q(2, 1), tau), One)),
                         QSqrt(QMul(Q(2, 1), tau))))
    THEN QDiv(x, QAdd(QMul(Q(2, 1), tau), One))
    ELSE QSub(x, QMul(QMul(gamma, QMul(Q(2, 1), tau)), QSign(x)))

prox_huber(x, gamma, tau) ==
    IF QLe(QAbs(x), QDiv(QMul(gamma, QAdd(QMul(Q(2, 1), tau), One)),
                         QSqrt(QMul(Q(2, 1), tau))))
    THEN QDiv(x, QAdd(QMul(Q(2, 1), tau), One))
    ELSE QSub(x, QMul(QMul(gamma, QSqrt(QMul(Q(2, 1), tau))), QSign(x)))

(* Mutant of prox_gen_gaussian: the p = 3 root with 6*gamma under the      *)
(* square root.                                                            *)
prox_gen_gaussian_root(x, gamma, p) ==
    IF p = Q(3, 1)
    THEN Ok(QDiv(QMul(QSign(x),
                      QSub(QSqrt(QAdd(One, QMul(QMul(Q(6, 1), gamma), QAbs(x)))),
                           One)),
                 QMul(Q(6, 1), gamma)))
    ELSE Exc("UnboundLocalError")

(* No branch binds `prox` for an unsupported p, and `return prox` raises   *)
(* UnboundLocalError.                                                      *)
prox_gen_gaussian(x, gamma, p) ==
    IF p = Q(4, 3)
    THEN LET xi == QSqrt(QAdd(QMul(x, x),
                              QDiv(QMul(Q(256, 1), QMul(gamma, QMul(gamma, gamma))),
                                   Q(729, 1))))
         IN  Ok(QAdd(x, QMul(QDiv(QMul(Q(4, 1), gamma),
                                  QMul(Q(3, 1), QCbrt(Q(2, 1)))),
                             QSub(QCbrt(QSub(xi, x)), QCbrt(QAdd(xi, x))))))
    ELSE IF p = Q(3, 2)
    THEN Ok(QAdd(x, QDiv(QMul(QMul(QMul(Q(9, 1), QMul(gamma, gamma)), QSign(x)),
                              QSub(One,
                                   QSqrt(QAdd(One,
                                              QDiv(QMul(Q(16, 1), QAbs(x)),
                                                   QMul(Q(9, 1), QMul(gamma, gamma))))))),
                         Q(8, 1))))
    ELSE IF p = Q(3, 1)
    THEN Ok(QDiv(QMul(QSign(x),
                      QSub(QSqrt(QAdd(One, QMul(QMul(Q(12, 1), gamma), QAbs(x)))),
                           One)),
                 QMul(Q(6, 1), gamma)))
    ELSE IF p = Q(4, 1)
    THEN LET xi == QSqrt(QAdd(QMul(x, x), QDiv(One, QMul(Q(27, 1), gamma))))
         IN  Ok(QSub(QCbrt(QDiv(QAdd(xi, x), QMul(Q(8, 1), gamma))),
                     QCbrt(QDiv(QSub(xi, x), QMul(Q(8, 1), gamma)))))
    ELSE Exc("UnboundLocalError")

(* prox_gen_gaussian takes three arguments and is called here with two:    *)
(* the call raises TypeError.                                              *)
prox_max_ent(x, gamma, tau, kappa, p) == Exc("TypeError")

prox_exp(x, gamma) ==
    IF QLe(gamma, x) THEN QSub(x, gamma) ELSE Zero

prox_uniform(x, omega) ==
    IF QLt(x, QNeg(omega)) THEN QNeg(omega)
    ELSE IF QLt(omega, x) THEN omega
    ELSE x

prox_smoothed_laplace(x, gamma) ==
    LET a == QSub(QSub(QMul(gamma, QAbs(x)), QMul(gamma, gamma)), One)
    IN  QDiv(QMul(QSign(x),
                  QAdd(a, QSqrt(QAdd(QMul(QAbs(a), QAbs(a)),
                                     QMul(QMul(Q(4, 1), gamma), QAbs(x)))))),
             QMul(Q(2, 1), gamma))

prox_gamma(x, omega, kappa) ==
    QDiv(QAdd(QSub(x, omega),
              QSqrt(QAdd(QMul(QSub(x, omega), QSub(x, omega)), QMul(Q(4, 1), kappa)))),
         Q(2, 1))

prox_chi(x, kappa) ==
    QDiv(QAdd(x, QSqrt(QAdd(QMul(x, x), QMul(Q(8, 1), kappa)))), Q(4, 1))

prox_triangular(x, omega1, omega2) ==
    IF QLt(x, QDiv(One, omega1))
    THEN QDiv(QAdd(QAdd(x, omega1),
                   QSqrt(QAdd(QMul(QSub(x, omega1), QSub(x, omega1)), Q(4, 1)))),
              Q(2, 1))
    ELSE IF QLt(QDiv(One, omega2), x)
    THEN QDiv(QAdd(QAdd(x, omega2),
                   QSqrt(QAdd(QMul(QSub(x, omega2), QSub(x, omega2)), Q(4, 1)))),
              Q(2, 1))
    ELSE Zero

(* A Python function passed as an argument is modelled by its name.        *)
ProxNames == {"prox_laplace", "prox_gaussian", "prox_exp", "prox_uniform"}

CallProx(prox, x, step) ==
    CASE prox = "prox_laplace" -> prox_laplace(x, step)
      [] prox = "prox_gaussian" -> prox_gaussian(x, step)
      [] prox = "prox_exp" -> prox_exp(x, step)
      [] prox = "prox_uniform" -> prox_uniform(x, step)

(* Mutant of prox_conjugate: the inner step gamma instead of 1/gamma.       *)
prox_conjugate_step(x, gamma, prox) ==
    QSub(x, QMul(gamma, CallProx(prox, QDiv(x, gamma), gamma)))

(* Mutant of prox_conjugate: x minus the operator itself at step gamma.    *)
prox_conjugate_residual(x, gamma, prox) ==
    QSub(x, CallProx(prox, x, gamma))

prox_conjugate(x, gamma, prox) ==
    QSub(x, QMul(gamma, CallProx(prox, QDiv(x, gamma), QDiv(One, gamma))))

-----------------------------------------------------------------------------
(* Rounded arithmetic of the samplers: float64 scaled down to fixed point. *)
(* A sampler number is an integer k standing for k/FScale; products,       *)
(* quotients and transcendentals round to the nearest k; a magnitude       *)
(* above FMax overflows to +-inf.  RPInf, RNInf and RNaN are the           *)
(* non-finite values.                                                      *)

FScale == 64
FMax == 128

Lim == FMax * FScale
RPInf == Lim + 1
RNInf == -(Lim + 1)
RNaN == Lim + 2

RIsInf(a) == a = RPInf \/ a = RNInf

IsFiniteR(a) == -Lim <= a /\ a <= Lim

Clamp(k) == IF k > Lim THEN RPInf ELSE IF k < -Lim THEN RNInf ELSE k

(* n/d rounded to the nearest integer, for d > 0.                          *)
RoundDiv(n, d) == Sgn(n) * ((2 * Abs(n) + d) \div (2 * d))

(* The grid number n/d of a literal.                                       *)
G(n, d) == (n * FScale) \div d

GOne == G(1, 1)
GTwo == G(2, 1)

RNeg(a) == IF a = RNaN THEN RNaN ELSE -a

RAbs(a) == IF a = RNaN THEN RNaN ELSE Abs(a)

RAdd(a, b) ==
    IF a = RNaN \/ b = RNaN THEN RNaN
    ELSE IF RIsInf(a) THEN (IF b = -a THEN RNaN ELSE a)
    ELSE IF RIsInf(b) THEN b
    ELSE Clamp(a + b)

RSub(a, b) == RAdd(a, RNeg(b))

RMul(a, b) ==
    IF a = RNaN \/ b = RNaN THEN RNaN
    ELSE IF RIsInf(a) \/ RIsInf(b)
         THEN (IF a = 0 \/ b = 0 THEN RNaN ELSE Sgn(a) * Sgn(b) * RPInf)
    ELSE Clamp(RoundDiv(a * b, FScale))

RDiv(a, b) ==
    IF a = RNaN \/ b = RNaN THEN RNaN
    ELSE IF RIsInf(a) THEN (IF RIsInf(b) THEN RNaN ELSE IF b < 0 THEN -a ELSE a)
    ELSE IF RIsInf(b) THEN 0
    ELSE IF b = 0 THEN (IF a = 0 THEN RNaN ELSE Sgn(a) * RPInf)
    ELSE Clamp(Sgn(b) * RoundDiv(a * FScale, Abs(b)))

RSqrt(a) ==
    IF a = RNaN \/ a < 0 THEN RNaN
    ELSE IF a = RPInf THEN RPInf
    ELSE (ISqrt(4 * a * FScale) + 1) \div 2

RLe(a, b) == a # RNaN /\ b # RNaN /\ a <= b

RLt(a, b) == a # RNaN /\ b # RNaN /\ a < b

(* Between the sampler's numbers and the library's.                        *)
ToQ(a) ==
    IF a = RNaN THEN NaN
    ELSE IF a = RPInf THEN PInf
    ELSE IF a = RNInf THEN NInf
    ELSE Q(a, FScale)

FromQ(q) ==
    IF q = NaN THEN RNaN
    ELSE IF q = PInf THEN RPInf
    ELSE IF q = NInf THEN RNInf
    ELSE Clamp(RoundDiv(q[1] * FScale, q[2]))

ExpTab ==
    <<
      1, 1, 1, 1, 1, 1, 1, 1, 1, 1, 1, 1, 1, 1, 1, 1, 1, 1, 1, 1, 1, 1, 1,
      1, 1, 1, 1, 1, 1, 1, 1, 1, 1, 1, 1, 1, 1, 1, 1, 1, 1, 1, 1, 1, 1, 1,
      1, 1, 1, 1, 1, 1, 1, 1, 1, 1, 1, 1, 1, 1, 1, 1, 1, 1, 1, 1, 1, 1, 1,
      1, 2, 2, 2, 2, 2, 2, 2, 2, 2, 2, 2, 2, 2, 2, 2, 2, 2, 2, 2, 2, 2, 2,
      2, 2, 2, 2, 2, 2, 2, 2, 2, 2, 2, 3, 3, 3, 3, 3, 3, 3, 3, 3, 3, 3, 3,
      3, 3, 3, 3, 3, 3, 3, 3, 3, 3, 4, 4, 4, 4, 4, 4, 4, 4, 4, 4, 4, 4, 4,
      4, 4, 4, 5, 5, 5, 5, 5, 5, 5, 5, 5, 5, 5, 5, 6, 6, 6, 6, 6, 6, 6, 6,
      6, 6, 6, 7, 7, 7, 7, 7, 7, 7, 7, 7, 8, 8, 8, 8, 8, 8, 8, 8, 9, 9, 9,
      9, 9, 9, 9, 10, 10, 10, 10, 10, 10, 10, 11, 11, 11, 11, 11, 11, 12,
      12, 12, 12, 12, 13, 13, 13, 13, 13, 14, 14, 14, 14, 15, 15, 15, 15,
      15, 16, 16, 16, 16, 17, 17, 17, 17, 18, 18, 18, 19, 19, 19, 20, 20,
      20, 20, 21, 21, 21, 22, 22, 22, 23, 23, 24, 24, 24, 25, 25, 25, 26,
      26, 27, 27, 28, 28, 28, 29, 29, 30, 30, 31, 31, 32, 32, 33, 33, 34,
      34, 35, 35, 36, 36, 37, 38, 38, 39, 39, 40, 41, 41, 42, 43, 43, 44,
      45, 45, 46, 47, 48, 48, 49, 50, 51, 51, 52, 53, 54, 55, 56, 56, 57,
      58, 59, 60, 61, 62, 63, 64, 65, 66, 67, 68, 69, 70, 71, 73, 74, 75,
      76, 77, 78, 80, 81, 82, 83, 85, 86, 87, 89, 90, 92, 93, 95, 96, 98,
      99, 101, 102, 104, 106, 107, 109, 111, 112, 114, 116, 118, 120, 121,
      123, 125, 127, 129, 131, 133, 135, 138, 140, 142, 144, 146, 149, 151,
      154, 156, 158, 161, 163, 166, 169, 171, 174, 177, 179, 182, 185, 188,
      191, 194, 197, 200, 203, 207, 210, 213, 217, 220, 223, 227, 230, 234,
      238, 242, 245, 249, 253, 257, 261, 265, 269, 274, 278, 282, 287, 291,
      296, 301, 305, 310, 315, 320, 325, 330, 335, 341, 346, 351, 357, 363,
      368, 374, 380, 386, 392, 398, 404, 411, 417, 424, 431, 437, 444, 451,
      458, 466, 473, 480, 488, 496, 503, 511, 519, 528, 536, 544, 553, 562,
      570, 579, 589, 598, 607, 617, 626, 636, 646, 657, 667, 677, 688, 699,
      710, 721, 732, 744, 756, 768, 780, 792, 804, 817, 830, 843, 856, 870,
      883, 897, 912, 926, 940, 955, 970, 986, 1001, 1017, 1033, 1049, 1066,
      1082, 1100, 1117, 1134, 1152, 1170, 1189, 1208, 1227, 1246, 1266,
      1285, 1306, 1326, 1347, 1368, 1390, 1412, 1434, 1457, 1480, 1503,
      1527, 1551, 1575, 1600, 1625, 1651, 1677, 1703, 1730, 1757, 1785,
      1813, 1841, 1870, 1900, 1930, 1960, 1991, 2022, 2054, 2087, 2119,
      2153, 2187, 2221, 2256, 2292, 2328, 2364, 2402, 2439, 2478, 2517,
      2556, 2597, 2638, 2679, 2721, 2764, 2808, 2852, 2897, 2942, 2989,
      3036, 3084, 3132, 3182, 3232, 3283, 3334, 3387, 3440, 3494, 3549,
      3605, 3662, 3720, 3778, 3838, 3898, 3960, 4022, 4085, 4150, 4215,
      4281, 4349, 4417, 4487, 4557, 4629, 4702, 4776, 4851, 4928, 5005,
      5084, 5164, 5246, 5328, 5412, 5497, 5584, 5672, 5761, 5852, 5944,
      6038, 6133, 6229, 6327, 6427, 6528, 6631, 6735, 6841, 6949, 7059,
      7170, 7283, 7397, 7514, 7632, 7752, 7874, 7998, 8124
    >>

SinhTab ==
    <<
      0, 1, 2, 3, 4, 5, 6, 7, 8, 9, 10, 11, 12, 13, 14, 15, 16, 17, 18, 19,
      20, 21, 22, 23, 25, 26, 27, 28, 29, 30, 31, 32, 33, 34, 36, 37, 38,
      39, 40, 41, 43, 44, 45, 46, 48, 49, 50, 51, 53, 54, 55, 57, 58, 59,
      61, 62, 63, 65, 66, 68, 69, 71, 72, 74, 75, 77, 78, 80, 82, 83, 85,
      86, 88, 90, 92, 93, 95, 97, 99, 101, 103, 104, 106, 108, 110, 112,
      114, 116, 118, 121, 123, 125, 127, 129, 132, 134, 136, 139, 141, 143,
      146, 148, 151, 154, 156, 159, 162, 164, 167, 170, 173, 176, 179, 182,
      185, 188, 191, 194, 197, 200, 204, 207, 211, 214, 218, 221, 225, 228,
      232, 236, 240, 244, 248, 252, 256, 260, 264, 268, 273, 277, 282, 286,
      291, 295, 300, 305, 310, 315, 320, 325, 330, 336, 341, 347, 352, 358,
      363, 369, 375, 381, 387, 393, 400, 406, 413, 419, 426, 433, 439, 446,
      454, 461, 468, 475, 483, 491, 499, 506, 514, 523, 531, 539, 548, 557,
      565, 574, 583, 593, 602, 612, 621, 631, 641, 651, 662, 672, 683, 693,
      704, 716, 727, 738, 750, 762, 774, 786, 799, 811, 824, 837, 850, 864,
      877, 891, 905, 920, 934, 949, 964, 979, 994, 1010, 1026, 1042, 1059,
      1075, 1092, 1110, 1127, 1145, 1163, 1181, 1200, 1219, 1238, 1258,
      1277, 1298, 1318, 1339, 1360, 1381, 1403, 1425, 1448, 1471, 1494,
      1517, 1541, 1565, 1590, 1615, 1641, 1667, 1693, 1719, 1747, 1774,
      1802, 1830, 1859, 1889, 1918, 1949, 1979, 2010, 2042, 2074, 2107,
      2140, 2174, 2208, 2243, 2278, 2314, 2351, 2388, 2425, 2463, 2502,
      2542, 2582, 2622, 2664, 2706, 2748, 2792, 2836, 2880, 2926, 2972,
      3018, 3066, 3114, 3163, 3213, 3264, 3315, 3367, 3420, 3474, 3529,
      3585, 3641, 3698, 3757, 3816, 3876, 3937, 3999, 4062, 4126, 4191,
      4257, 4324, 4392, 4461, 4532, 4603, 4675, 4749, 4824, 4900, 4977,
      5055, 5135, 5216, 5298, 5381, 5466, 5552, 5640, 5728, 5819, 5910,
      6003, 6098, 6194, 6292, 6391, 6491, 6593, 6697, 6803, 6910, 7019,
      7129, 7242, 7356, 7471, 7589, 7709, 7830, 7953, 8079
    >>

ArcsinhBreaks ==
    <<
      1, 2, 3, 4, 5, 6, 7, 8, 9, 10, 11, 12, 13, 14, 15, 16, 17, 18, 19,
      20, 21, 22, 23, 25, 26, 27, 28, 29, 30, 31, 32, 33, 34, 36, 37, 38,
      39, 40, 41, 43, 44, 45, 46, 47, 49, 50, 51, 52, 54, 55, 56, 58, 59,
      60, 62, 63, 65, 66, 67, 69, 70, 72, 73, 75, 76, 78, 80, 81, 83, 84,
      86, 88, 90, 91, 93, 95, 97, 98, 100, 102, 104, 106, 108, 110, 112,
      114, 116, 118, 120, 122, 124, 127, 129, 131, 133, 136, 138, 140, 143,
      145, 148, 150, 153, 155, 158, 161, 163, 166, 169, 172, 175, 178, 181,
      184, 187, 190, 193, 196, 199, 203, 206, 209, 213, 216, 220, 223, 227,
      231, 235, 238, 242, 246, 250, 254, 258, 262, 267, 271, 275, 280, 284,
      289, 294, 298, 303, 308, 313, 318, 323, 328, 334, 339, 344, 350, 355,
      361, 367, 373, 379, 385, 391, 397, 403, 410, 416, 423, 430, 436, 443,
      450, 458, 465, 472, 480, 487, 495, 503, 511, 519, 527, 536, 544, 553,
      561, 570, 579, 589, 598, 607, 617, 627, 637, 647, 657, 667, 678, 689,
      699, 711, 722, 733, 745, 756, 768, 781, 793, 805, 818, 831, 844, 857,
      871, 885, 899, 913, 927, 942, 957, 972, 987, 1003, 1019, 1035, 1051,
      1068, 1084, 1101, 1119, 1136, 1154, 1173, 1191, 1210, 1229, 1248,
      1268, 1288, 1308, 1329, 1350, 1371, 1393, 1415, 1437, 1460, 1483,
      1506, 1530, 1554, 1578, 1603, 1628, 1654, 1680, 1707, 1733, 1761,
      1789, 1817, 1845, 1874, 1904, 1934, 1964, 1995, 2027, 2059, 2091,
      2124, 2157, 2191, 2226, 2261, 2297, 2333, 2370, 2407, 2445, 2483,
      2522, 2562, 2602, 2643, 2685, 2727, 2770, 2814, 2858, 2903, 2949,
      2995, 3043, 3091, 3139, 3189, 3239, 3290, 3342, 3394, 3448, 3502,
      3557, 3613, 3670, 3728, 3787, 3846, 3907, 3968, 4031, 4094, 4159,
      4224, 4291, 4358, 4427, 4497, 4568, 4639, 4713, 4787, 4862, 4939,
      5016, 5095, 5176, 5257, 5340, 5424, 5510, 5596, 5684, 5774, 5865,
      5957, 6051, 6146, 6243, 6341, 6441, 6543, 6646, 6750, 6857, 6965,
      7074, 7186, 7299, 7414, 7531, 7649, 7770, 7892, 8016, 8142
    >>

(* np.exp, rounded to the grid: 0 on underflow, +inf on overflow.          *)
RExp(a) ==
    LET h == (Len(ExpTab) - 1) \div 2
    IN  IF a = RNaN THEN RNaN
        ELSE IF a > h THEN RPInf
        ELSE IF a < -h THEN 0
        ELSE ExpTab[a + h + 1]

(* np.sinh, rounded to the grid (odd, +-inf on overflow).                  *)
RSinh(a) ==
    IF a = RNaN THEN RNaN
    ELSE IF Abs(a) >= Len(SinhTab) THEN Sgn(a) * RPInf
    ELSE Sgn(a) * SinhTab[Abs(a) + 1]

(* np.arcsinh, rounded to the grid: the number of break points not above   *)
(* |a|, with the sign of a.                                                *)
RECURSIVE BreaksBelow(_, _, _)
BreaksBelow(y, lo, hi) ==
    IF hi - lo <= 1 THEN lo
    ELSE LET mid == (lo + hi) \div 2
         IN  IF ArcsinhBreaks[mid] <= y THEN BreaksBelow(y, mid, hi)
             ELSE BreaksBelow(y, lo, mid)

RArcsinh(a) ==
    IF a = RNaN \/ RIsInf(a) THEN a
    ELSE Sgn(a) * BreaksBelow(Abs(a), 0, Len(ArcsinhBreaks) + 1)

(* 2*pi on the grid.                                                       *)
TwoPi == G(402, 64)

(* prox.prox_laplace called on the sampler's numbers.                      *)
prox_prox_laplace(x, gamma) == FromQ(prox_laplace(ToQ(x), ToQ(gamma)))

(* Python's built-in min(a, b) and max(a, b): a unless b compares below   *)
(* (above) it, so a NaN second argument is never chosen.                  *)
PyMin(a, b) == IF RLt(b, a) THEN b ELSE a
PyMax(a, b) == IF RLt(a, b) THEN b ELSE a

RECURSIVE RSum(_)
RSum(s) == IF Len(s) = 0 THEN 0 ELSE RAdd(RSum(SubSeq(s, 1, Len(s) - 1)), s[Len(s)])

-----------------------------------------------------------------------------
(* prox_lmc.py: class ProximalLangevinMonteCarlo, in dimension d = 1 (a    *)
(* vector is its single component, a matrix its single entry).  self is    *)
(* the record of the object's fields.                                      *)

multivariate_gaussian(self, theta, mu, Sigma) ==
    LET Sigma_det == Sigma
        Sigma_inv == RDiv(GOne, Sigma)
        N == RSqrt(RMul(TwoPi, RAbs(Sigma_det)))
        fac == RMul(RMul(RSub(theta, mu), Sigma_inv), RSub(theta, mu))
    IN  RDiv(RExp(RNeg(RDiv(fac, GTwo))), N)

density_gaussian_mixture(self, theta) ==
    RSum([i \in 1..Len(self.mus) |->
             RMul(self.omegas[i],
                  multivariate_gaussian(self, theta, self.mus[i], self.Sigmas[i]))])

multivariate_laplacian(self, theta) ==
    RMul(RDiv(self.alpha, GTwo),
         RExp(RNeg(RMul(self.alpha, RAbs(RSub(theta, self.mu))))))

grad_density_multivariate_gaussian(self, theta, mu, Sigma) ==
    RMul(RMul(multivariate_gaussian(self, theta, mu, Sigma), RDiv(GOne, Sigma)),
         RSub(mu, theta))

grad_density_gaussian_mixture(self, theta) ==
    RSum([i \in 1..Len(self.mus) |->
             RMul(self.omegas[i],
                  grad_density_multivariate_gaussian(self, theta, self.mus[i],
                                                     self.Sigmas[i]))])

grad_potential_gaussian_mixture(self, theta) ==
    RDiv(RNeg(grad_density_gaussian_mixture(self, theta)),
         density_gaussian_mixture(self, theta))

hess_density_multivariate_gaussian(self, theta, mu, Sigma) ==
    LET Sigma_inv == RDiv(GOne, Sigma)
        outer == RMul(RSub(theta, mu), RSub(theta, mu))
    IN  RMul(multivariate_gaussian(self, theta, mu, Sigma),
             RSub(RMul(RMul(Sigma_inv, outer), Sigma_inv), Sigma_inv))

hess_density_gaussian_mixture(self, theta) ==
    RSum([i \in 1..Len(self.mus) |->
             RMul(self.omegas[i],
                  hess_density_multivariate_gaussian(self, theta, self.mus[i],
                                                     self.Sigmas[i]))])

hess_potential_gaussian_mixture(self, theta) ==
    LET density == density_gaussian_mixture(self, theta)
        grad_density == grad_density_gaussian_mixture(self, theta)
        hess_density == hess_density_gaussian_mixture(self, theta)
    IN  RSub(RDiv(RMul(grad_density, grad_density), RMul(density, density)),
             RDiv(hess_density, density))

gd_update(self, theta, gamma) ==
    RSub(theta, RMul(gamma, grad_potential_gaussian_mixture(self, theta)))

self_prox_uncentered_laplace(self, theta, gamma, mu) ==
    RAdd(mu, prox_prox_laplace(RSub(theta, mu), gamma))

moreau_env_uncentered_laplace(self, theta) ==
    LET p == self_prox_uncentered_laplace(self, theta, RMul(self.lamda, self.alpha),
                                          self.mu)
    IN  RAdd(RMul(self.alpha, RAbs(RSub(p, self.mu))),
             RDiv(RMul(RSub(p, theta), RSub(p, theta)), RMul(GTwo, self.lamda)))

smooth_multivariate_laplacian(self, theta) ==
    RMul(RDiv(self.alpha, GTwo), RExp(RNeg(moreau_env_uncentered_laplace(self, theta))))

(* MYULA *)
(* Mutant of grad_Moreau_env: the threshold is lamda, without alpha.       *)
grad_Moreau_env_lamda(self, theta) ==
    RDiv(RSub(theta, prox_prox_laplace(theta, self.lamda)), self.lamda)

grad_Moreau_env(self, theta) ==
    RDiv(RSub(theta, prox_prox_laplace(theta, RMul(self.lamda, self.alpha))), self.lamda)

prox_update(self, theta, gamma) ==
    RMul(RNeg(gamma), grad_Moreau_env(self, theta))

(* MYMALA *)
(* scipy.stats.multivariate_normal(mean, cov).pdf(x) in one dimension.     *)
NormalPdf(x, mean, cov) ==
    RDiv(RExp(RNeg(RDiv(RDiv(RMul(RSub(x, mean), RSub(x, mean)), cov), GTwo))),
         RSqrt(RMul(TwoPi, cov)))

q_prob(self, theta1, theta2, gamma) ==
    NormalPdf(theta1,
              RAdd(gd_update(self, theta2, gamma), prox_update(self, theta2, gamma)),
              RMul(GTwo, gamma))

(* Mutant of prob: the target's prior is the Moreau-smoothed one.           *)
prob_smoothed(self, theta_new, theta_old, gamma) ==
    LET density_ratio ==
            RDiv(RMul(density_gaussian_mixture(self, theta_new),
                      smooth_multivariate_laplacian(self, theta_new)),
                 RMul(density_gaussian_mixture(self, theta_old),
                      smooth_multivariate_laplacian(self, theta_old)))
        q_ratio == RDiv(q_prob(self, theta_old, theta_new, gamma),
                        q_prob(self, theta_new, theta_old, gamma))
    IN  RMul(density_ratio, q_ratio)

prob(self, theta_new, theta_old, gamma) ==
    LET density_ratio ==
            RDiv(RMul(density_gaussian_mixture(self, theta_new),
                      multivariate_laplacian(self, theta_new)),
                 RMul(density_gaussian_mixture(self, theta_old),
                      multivariate_laplacian(self, theta_old)))
        q_ratio == RDiv(q_prob(self, theta_old, theta_new, gamma),
                        q_prob(self, theta_new, theta_old, gamma))
    IN  RMul(density_ratio, q_ratio)

(* PP-ULA *)
preconditioned_gd_update(self, theta, gamma, M) ==
    RSub(theta, RMul(RMul(gamma, M), grad_potential_gaussian_mixture(self, theta)))

(* The literals 1e-5 and 1e-9 of preconditioned_prox, scaled to the grid:  *)
(* two grid units and one grid unit.                                       *)
EpsMargin == G(2, FScale)
EpsFloor == G(1, FScale)

(* One sweep of the fixed-point loop: uw is the pair <<u, w>> after it.    *)
RECURSIVE preconditioned_prox_sweeps(_, _, _, _, _, _)
preconditioned_prox_sweeps(x, gamma, Q_, eta, t, uw) ==
    IF t = 0 THEN uw
    ELSE LET w == uw[2]
             u == RSub(x, RMul(Q_, w))
             wn == RSub(RAdd(w, RMul(eta, u)),
                        RMul(eta, prox_prox_laplace(RAdd(RDiv(w, eta), u), RDiv(gamma, eta))))
         IN  preconditioned_prox_sweeps(x, gamma, Q_, eta, t - 1, <<u, wn>>)

(* Returns [raised, val] and the locals rho, eps, eta: with t = 0 the     *)
(* loop body never binds u and `return u` raises UnboundLocalError.        *)
preconditioned_prox(self, x, gamma, Q_, t) ==
    LET rho == RDiv(GOne, RAbs(Q_))
        eps == PyMax(RSub(PyMin(GOne, rho), EpsMargin), EpsFloor)
        eta == RSub(rho, eps)
        uw == preconditioned_prox_sweeps(x, gamma, Q_, eta, t, <<RNaN, 0>>)
    IN  IF t <= 0
        THEN [raised |-> TRUE, val |-> RNaN, rho |-> rho, eps |-> eps, eta |-> eta]
        ELSE [raised |-> FALSE, val |-> uw[1], rho |-> rho, eps |-> eps, eta |-> eta]

(* Returns [raised, val]: np.linalg.inv raises LinAlgError on a singular Q. *)
preconditioned_prox_update(self, theta, gamma, Q_, t) ==
    LET pp == preconditioned_prox(self, theta, self.lamda, Q_, t)
    IN  IF Q_ = 0 \/ pp.raised THEN [raised |-> TRUE, val |-> RNaN]
        ELSE [raised |-> FALSE,
              val |-> RDiv(RMul(RMul(RNeg(gamma), RDiv(GOne, Q_)), RSub(theta, pp.val)),
                           self.lamda)]

(* FBULA *)
grad_FB_env(self, theta) ==
    RDiv(RMul(RSub(GOne, RMul(self.lamda, hess_potential_gaussian_mixture(self, theta))),
              RSub(theta, prox_prox_laplace(gd_update(self, theta, self.lamda),
                                       RMul(self.lamda, self.alpha)))),
         self.lamda)

gd_FB_update(self, theta, gamma) ==
    RSub(theta, RMul(gamma, grad_FB_env(self, theta)))

(* LBMUMLA *)
grad_mirror_hyp(self, theta, beta) == RArcsinh(RDiv(theta, beta))

grad_conjugate_mirror_hyp(self, theta, beta) == RMul(beta, RSinh(theta))

(* Mutant of left_bregman_prox_ell_one_hypent: the array path takes the    *)
(* outer branches at the boundary points too.                              *)
left_bregman_prox_ell_one_hypent_closed(self, isfloat, theta, beta, gamma) ==
    LET p1 == RMul(beta, RSinh(RSub(RArcsinh(RDiv(theta, beta)), gamma)))
        p2 == RMul(beta, RSinh(RAdd(RArcsinh(RDiv(theta, beta)), gamma)))
        p3 == RSub(RSqrt(RAdd(RMul(theta, theta), RMul(beta, beta))), beta)
        above == RLt(RMul(beta, RSinh(gamma)), theta)
        below == RLt(theta, RMul(beta, RSinh(RNeg(gamma))))
        aboveeq == RLe(RMul(beta, RSinh(gamma)), theta)
        beloweq == RLe(theta, RMul(beta, RSinh(RNeg(gamma))))
    IN  IF isfloat
        THEN (IF above THEN p1 ELSE IF below THEN p2 ELSE p3)
        ELSE LET p == IF aboveeq THEN p1 ELSE p3
             IN  IF beloweq THEN p2 ELSE p

(* isfloat is isinstance(theta, float): the scalar path branches, the      *)
(* array path selects with np.where.                                       *)
left_bregman_prox_ell_one_hypent(self, isfloat, theta, beta, gamma) ==
    LET p1 == RMul(beta, RSinh(RSub(RArcsinh(RDiv(theta, beta)), gamma)))
        p2 == RMul(beta, RSinh(RAdd(RArcsinh(RDiv(theta, beta)), gamma)))
        p3 == RSub(RSqrt(RAdd(RMul(theta, theta), RMul(beta, beta))), beta)
        above == RLt(RMul(beta, RSinh(gamma)), theta)
        below == RLt(theta, RMul(beta, RSinh(RNeg(gamma))))
    IN  IF isfloat
        THEN (IF above THEN p1 ELSE IF below THEN p2 ELSE p3)
        ELSE LET p == IF above THEN p1 ELSE p3
             IN  IF below THEN p2 ELSE p

grad_BM_env(self, theta, beta) ==
    RMul(RMul(RDiv(GOne, self.lamda),
              RDiv(GOne, RSqrt(RAdd(RMul(theta, theta), RMul(beta, beta))))),
         RSub(theta, left_bregman_prox_ell_one_hypent(self, FALSE, theta, beta,
                                                      RMul(self.lamda, self.alpha))))

gd_BM_update(self, theta, gamma) ==
    RMul(RNeg(gamma), grad_potential_gaussian_mixture(self, theta))

prox_BM_update(self, theta, beta, gamma) ==
    RMul(RNeg(gamma), grad_BM_env(self, theta, beta))

-----------------------------------------------------------------------------
(* numpy.random.Generator: default_rng(seed) and its draws.  The stream    *)
(* is a deterministic function of the seed; a draw advances the state      *)
(* once and returns <<new state, value>>.                                  *)

default_rng(seed) == (37 * seed + 11) % 256

Advance(s) == (141 * s + 3) % 256

NormalTab ==
    <<G(-3, 2), G(-3, 4), G(-3, 8), G(-1, 8), G(1, 8), G(3, 8), G(3, 4), G(3, 2)>>

rng_standard_normal(s) ==
    LET n == Advance(s) IN <<n, NormalTab[(n \div 32) + 1]>>

rng_multivariate_normal(s) ==
    LET n == Advance(s) IN <<n, NormalTab[(n \div 32) + 1]>>

rng_random(s) ==
    LET n == Advance(s) IN <<n, G(n \div 4, 64)>>

-----------------------------------------------------------------------------
(* The sampler methods.  An invocation is the record of the method's       *)
(* local variables: pc (idle, run, returned, raised), the sampler called   *)
(* and its arguments, rng, theta0, the list theta, the number k of loop    *)
(* iterations done, the loop body's locals xi, theta_new, p, alpha, u, the *)
(* outcomes acc of the test `rng.random() <= alpha`, and the value ret     *)
(* returned (eff_K is -1 where the method returns the array alone).        *)

NoRet == [theta |-> <<>>, eff_K |-> -1]

Idle ==
    [pc |-> "idle", sampler |-> "none",
     args |-> [gamma |-> 0, M |-> 0, Q_ |-> 0, t |-> 0,
               beta |-> 0, sigma |-> 0],
     rng |-> 0, theta0 |-> 0, theta |-> <<>>, k |-> 0,
     xi |-> 0, theta_new |-> 0, p |-> 0, alpha |-> 0, u |-> 0,
     acc |-> <<>>, ret |-> NoRet]

(* Mutant of Start: the generator's seed depends on the method called.     *)
Start_per_sampler(self, sampler, args) ==
    LET d == rng_standard_normal(default_rng(self.seed
                                             + (IF sampler = "fbula" THEN 1 ELSE 0)))
    IN  [Idle EXCEPT !.pc = "run", !.sampler = sampler, !.args = args,
                     !.rng = d[1], !.theta0 = d[2]]

(* rng = default_rng(self.seed); theta0 = rng.standard_normal(self.d);     *)
(* theta = []                                                              *)
Start(self, sampler, args) ==
    LET d == rng_standard_normal(default_rng(self.seed))
    IN  [Idle EXCEPT !.pc = "run", !.sampler = sampler, !.args = args,
                     !.rng = d[1], !.theta0 = d[2]]

(* Mutant of pgld_body: the proximal step is applied in place, to the     *)
(* array that the previous iteration appended.                             *)
pgld_body_alias(self, l) ==
    LET gamma == l.args.gamma
        d == rng_multivariate_normal(l.rng)
        xi == d[2]
        theta0 == prox_prox_laplace(l.theta0, RMul(self.lamda, self.alpha))
        theta_new == RAdd(gd_update(self, theta0, gamma),
                          RMul(RSqrt(RMul(GTwo, gamma)), xi))
        old == IF Len(l.theta) = 0 THEN l.theta
               ELSE [l.theta EXCEPT ![Len(l.theta)] = theta0]
    IN  [l EXCEPT !.rng = d[1], !.xi = xi, !.theta_new = theta_new,
                  !.theta = Append(old, theta_new), !.theta0 = theta_new,
                  !.k = @ + 1]

(* Mutant of pgld_body: the gradient step is taken from the current state  *)
(* and the proximal map is applied to its result.                          *)
pgld_body_gradfirst(self, l) ==
    LET gamma == l.args.gamma
        d == rng_multivariate_normal(l.rng)
        xi == d[2]
        theta_new == RAdd(prox_prox_laplace(gd_update(self, l.theta0, gamma),
                                            RMul(self.lamda, self.alpha)),
                          RMul(RSqrt(RMul(GTwo, gamma)), xi))
    IN  [l EXCEPT !.rng = d[1], !.xi = xi, !.theta_new = theta_new,
                  !.theta = Append(@, theta_new), !.theta0 = theta_new,
                  !.k = @ + 1]

pgld_body(self, l) ==
    LET gamma == l.args.gamma
        d == rng_multivariate_normal(l.rng)
        xi == d[2]
        theta0 == prox_prox_laplace(l.theta0, RMul(self.lamda, self.alpha))
        theta_new == RAdd(gd_update(self, theta0, gamma),
                          RMul(RSqrt(RMul(GTwo, gamma)), xi))
    IN  [l EXCEPT !.rng = d[1], !.xi = xi, !.theta_new = theta_new,
                  !.theta = Append(@, theta_new), !.theta0 = theta_new,
                  !.k = @ + 1]

myula_body(self, l) ==
    LET gamma == l.args.gamma
        d == rng_multivariate_normal(l.rng)
        xi == d[2]
        theta_new == RAdd(RAdd(gd_update(self, l.theta0, gamma),
                               prox_update(self, l.theta0, gamma)),
                          RMul(RSqrt(RMul(GTwo, gamma)), xi))
    IN  [l EXCEPT !.rng = d[1], !.xi = xi, !.theta_new = theta_new,
                  !.theta = Append(@, theta_new), !.theta0 = theta_new,
                  !.k = @ + 1]

(* Mutants of mymala_body: the chain moves to the proposal on rejection    *)
(* too; alpha is the ratio itself, without the min.                        *)
mymala_body_advance(self, l) ==
    LET gamma == l.args.gamma
        d == rng_multivariate_normal(l.rng)
        xi == d[2]
        theta_new == RAdd(RAdd(gd_update(self, l.theta0, gamma),
                               prox_update(self, l.theta0, gamma)),
                          RMul(RSqrt(RMul(GTwo, gamma)), xi))
        p == prob(self, theta_new, l.theta0, gamma)
        alpha == PyMin(GOne, p)
        e == rng_random(d[1])
        u == e[2]
    IN  [l EXCEPT !.rng = e[1], !.xi = xi, !.theta_new = theta_new,
                  !.p = p, !.alpha = alpha, !.u = u,
                  !.acc = Append(@, RLe(u, alpha)),
                  !.theta = IF RLe(u, alpha) THEN Append(@, theta_new) ELSE @,
                  !.theta0 = theta_new,
                  !.k = @ + 1]

mymala_body_noclamp(self, l) ==
    LET gamma == l.args.gamma
        d == rng_multivariate_normal(l.rng)
        xi == d[2]
        theta_new == RAdd(RAdd(gd_update(self, l.theta0, gamma),
                               prox_update(self, l.theta0, gamma)),
                          RMul(RSqrt(RMul(GTwo, gamma)), xi))
        p == prob(self, theta_new, l.theta0, gamma)
        alpha == p
        e == rng_random(d[1])
        u == e[2]
    IN  [l EXCEPT !.rng = e[1], !.xi = xi, !.theta_new = theta_new,
                  !.p = p, !.alpha = alpha, !.u = u,
                  !.acc = Append(@, RLe(u, alpha)),
                  !.theta = IF RLe(u, alpha) THEN Append(@, theta_new) ELSE @,
                  !.theta0 = IF RLe(u, alpha) THEN theta_new ELSE @,
                  !.k = @ + 1]

(* Mutant of mymala_body: the uniform number is drawn only when alpha is   *)
(* below 1.                                                                *)
mymala_body_lazydraw(self, l) ==
    LET gamma == l.args.gamma
        d == rng_multivariate_normal(l.rng)
        xi == d[2]
        theta_new == RAdd(RAdd(gd_update(self, l.theta0, gamma),
                               prox_update(self, l.theta0, gamma)),
                          RMul(RSqrt(RMul(GTwo, gamma)), xi))
        p == prob(self, theta_new, l.theta0, gamma)
        alpha == PyMin(GOne, p)
        e == IF RLt(alpha, GOne) THEN rng_random(d[1]) ELSE <<d[1], 0>>
        u == e[2]
    IN  IF ~RLt(0, RMul(GTwo, gamma))
        THEN [l EXCEPT !.pc = "raised", !.rng = d[1], !.xi = xi,
                       !.theta_new = theta_new]
        ELSE [l EXCEPT !.rng = e[1], !.xi = xi, !.theta_new = theta_new,
                       !.p = p, !.alpha = alpha, !.u = u,
                       !.acc = Append(@, RLe(u, alpha)),
                       !.theta = IF RLe(u, alpha) THEN Append(@, theta_new) ELSE @,
                       !.theta0 = IF RLe(u, alpha) THEN theta_new ELSE @,
                       !.k = @ + 1]

(* scipy's multivariate_normal raises on a covariance 2*gamma that is not  *)
(* positive (ValueError, LinAlgError), inside q_prob.                      *)
mymala_body(self, l) ==
    LET gamma == l.args.gamma
        d == rng_multivariate_normal(l.rng)
        xi == d[2]
        theta_new == RAdd(RAdd(gd_update(self, l.theta0, gamma),
                               prox_update(self, l.theta0, gamma)),
                          RMul(RSqrt(RMul(GTwo, gamma)), xi))
        p == prob(self, theta_new, l.theta0, gamma)
        alpha == PyMin(GOne, p)
        e == rng_random(d[1])
        u == e[2]
    IN  IF ~RLt(0, RMul(GTwo, gamma))
        THEN [l EXCEPT !.pc = "raised", !.rng = d[1], !.xi = xi,
                       !.theta_new = theta_new]
        ELSE IF RLe(u, alpha)
        THEN [l EXCEPT !.rng = e[1], !.xi = xi, !.theta_new = theta_new,
                       !.p = p, !.alpha = alpha, !.u = u,
                       !.acc = Append(@, TRUE),
                       !.theta = Append(@, theta_new), !.theta0 = theta_new,
                       !.k = @ + 1]
        ELSE [l EXCEPT !.rng = e[1], !.xi = xi, !.theta_new = theta_new,
                       !.p = p, !.alpha = alpha, !.u = u,
                       !.acc = Append(@, FALSE),
                       !.k = @ + 1]

ppula_body(self, l) ==
    LET gamma == l.args.gamma
        M == l.args.M
        d == rng_multivariate_normal(l.rng)
        xi == d[2]
        pu == preconditioned_prox_update(self, l.theta0, gamma, l.args.Q_, l.args.t)
        theta_new == RAdd(RAdd(preconditioned_gd_update(self, l.theta0, gamma, M),
                               pu.val),
                          RMul(RMul(RSqrt(RMul(GTwo, gamma)), RSqrt(M)), xi))
    IN  IF pu.raised
        THEN [l EXCEPT !.pc = "raised", !.rng = d[1], !.xi = xi]
        ELSE [l EXCEPT !.rng = d[1], !.xi = xi, !.theta_new = theta_new,
                       !.theta = Append(@, theta_new), !.theta0 = theta_new,
                       !.k = @ + 1]

fbula_body(self, l) ==
    LET gamma == l.args.gamma
        d == rng_multivariate_normal(l.rng)
        xi == d[2]
        theta_new == RAdd(gd_FB_update(self, l.theta0, gamma),
                          RMul(RSqrt(RMul(GTwo, gamma)), xi))
    IN  [l EXCEPT !.rng = d[1], !.xi = xi, !.theta_new = theta_new,
                  !.theta = Append(@, theta_new), !.theta0 = theta_new,
                  !.k = @ + 1]

lbmumla_body(self, l) ==
    LET gamma == l.args.gamma
        beta == l.args.beta
        sigma == l.args.sigma
        d == rng_multivariate_normal(l.rng)
        xi == d[2]
        noise == RMul(RMul(RSqrt(RMul(GTwo, gamma)),
                           RDiv(GOne, RSqrt(RSqrt(RAdd(RMul(l.theta0, l.theta0),
                                                      RMul(beta, beta)))))),
                      xi)
        theta_mid == RAdd(RAdd(RAdd(grad_mirror_hyp(self, l.theta0, beta),
                                    gd_BM_update(self, l.theta0, gamma)),
                               prox_BM_update(self, l.theta0, sigma, gamma)),
                          noise)
        theta_new == grad_conjugate_mirror_hyp(self, theta_mid, beta)
    IN  [l EXCEPT !.rng = d[1], !.xi = xi, !.theta_new = theta_new,
                  !.theta = Append(@, theta_new), !.theta0 = theta_new,
                  !.k = @ + 1]

(* Mutant of Finish: mymala reports the number of iterations.              *)
Finish_iterations(l) ==
    [l EXCEPT !.pc = "returned",
              !.ret = [theta |-> l.theta,
                       eff_K |-> IF l.sampler = "mymala" THEN l.k ELSE -1]]

(* return np.array(theta)  /  return np.array(theta), len(theta)           *)
Finish(l) ==
    [l EXCEPT !.pc = "returned",
              !.ret = [theta |-> l.theta,
                       eff_K |-> IF l.sampler = "mymala" THEN Len(l.theta) ELSE -1]]

-----------------------------------------------------------------------------
(* The objects and the calls explored.                                     *)

NoCall == [op |-> "none", val |-> Zero, raised |-> FALSE]

Returned(name, v) == [op |-> name, val |-> v, raised |-> FALSE]

Raised(name) == [op |-> name, val |-> NaN, raised |-> TRUE]

MaxK == 2
MaxSeed == 1

Chains == {1, 2}

Targets ==
    { [mus |-> <<0>>, Sigmas |-> <<GOne>>, omegas |-> <<GOne>>,
       lamda |-> G(1, 2), alpha |-> GOne, mu |-> 0],
      [mus |-> <<G(-1, 1), GOne>>, Sigmas |-> <<GOne, G(1, 2)>>,
       omegas |-> <<G(1, 2), G(1, 2)>>,
       lamda |-> G(1, 4), alpha |-> G(1, 2), mu |-> G(1, 2)] }

(* __init__: the fields of the constructed object.                         *)
Construct(mus, Sigmas, omegas, lamda, alpha, mu, K, seed) ==
    [mus |-> mus, Sigmas |-> Sigmas, omegas |-> omegas, lamda |-> lamda,
     alpha |-> alpha, mu |-> mu, n |-> K, seed |-> seed, d |-> 1]

Objects ==
    { Construct(tg.mus, tg.Sigmas, tg.omegas, tg.lamda, tg.alpha, tg.mu, K, seed) :
        tg \in Targets, K \in 0..MaxK, seed \in 0..MaxSeed }

Args(gamma, M, Q_, t, beta, sigma) ==
    [gamma |-> gamma, M |-> M, Q_ |-> Q_, t |-> t, beta |-> beta, sigma |-> sigma]

CallArgs(sampler) ==
    CASE sampler = "pgld" -> { Args(G(1, 8), 0, 0, 0, 0, 0) }
      [] sampler = "myula" ->
            { Args(G(1, 8), 0, 0, 0, 0, 0),
              Args(G(1, 2), 0, 0, 0, 0, 0) }
      [] sampler = "mymala" ->
            { Args(G(1, 4), 0, 0, 0, 0, 0),
              Args(GOne, 0, 0, 0, 0, 0),
              Args(G(-1, 8), 0, 0, 0, 0, 0) }
      [] sampler = "ppula" ->
            { Args(G(1, 8), GOne, GOne, 2, 0, 0),
              Args(G(1, 8), G(1, 4), GTwo, 1, 0, 0),
              Args(G(1, 8), GOne, GOne, 0, 0, 0) }
      [] sampler = "fbula" -> { Args(G(1, 2), 0, 0, 0, 0, 0) }
      [] sampler = "lbmumla" -> { Args(G(1, 8), 0, 0, 0, GOne, GOne) }

Samplers == {"pgld", "myula", "mymala", "ppula", "fbula", "lbmumla"}

Unadjusted == Samplers \ {"mymala"}

Init ==
    /\ obj \in Objects
    /\ inv = [c \in Chains |-> Idle]
    /\ pin = [x |-> Zero, gamma |-> Zero, tau |-> Zero, prox |-> "none"]
    /\ pout = NoCall

Other(c) == CHOOSE o \in Chains : o # c

(* Mutant of Call: one module-level generator, seeded by the first call    *)
(* and carried on by the next.                                             *)
Call_global_rng(c) ==
    /\ inv[c].pc = "idle"
    /\ \E sampler \in Samplers : \E args \in CallArgs(sampler) :
           LET l == Start(obj, sampler, args)
               g == IF inv[Other(c)].pc = "idle" THEN default_rng(obj.seed)
                    ELSE inv[Other(c)].rng
               d == rng_standard_normal(g)
           IN  inv' = [inv EXCEPT ![c] = [l EXCEPT !.rng = d[1], !.theta0 = d[2]]]
    /\ UNCHANGED <<obj, pin, pout>>

(* A sampler method is entered: the lines before its loop.                 *)
Call(c) ==
    /\ inv[c].pc = "idle"
    /\ \E sampler \in Samplers : \E args \in CallArgs(sampler) :
           inv' = [inv EXCEPT ![c] = Start(obj, sampler, args)]
    /\ UNCHANGED <<obj, pin, pout>>

(* One iteration of `for _ in progress_bar(range(self.n))`.                *)
InLoop(c, sampler) ==
    /\ inv[c].pc = "run"
    /\ inv[c].sampler = sampler
    /\ inv[c].k < obj.n

pgld(c) ==
    /\ InLoop(c, "pgld")
    /\ inv' = [inv EXCEPT ![c] = pgld_body(obj, inv[c])]
    /\ UNCHANGED <<obj, pin, pout>>

(* Mutant of myula: the generator is an attribute of the object, so a     *)
(* draw of one invocation moves the stream of the other.                   *)
myula_shared_rng(c) ==
    /\ InLoop(c, "myula")
    /\ LET l == myula_body(obj, inv[c])
       IN  inv' = [inv EXCEPT ![c] = l,
                              ![Other(c)] = [@ EXCEPT !.rng = l.rng]]
    /\ UNCHANGED <<obj, pin, pout>>

myula(c) ==
    /\ InLoop(c, "myula")
    /\ inv' = [inv EXCEPT ![c] = myula_body(obj, inv[c])]
    /\ UNCHANGED <<obj, pin, pout>>

mymala(c) ==
    /\ InLoop(c, "mymala")
    /\ inv' = [inv EXCEPT ![c] = mymala_body(obj, inv[c])]
    /\ UNCHANGED <<obj, pin, pout>>

ppula(c) ==
    /\ InLoop(c, "ppula")
    /\ inv' = [inv EXCEPT ![c] = ppula_body(obj, inv[c])]
    /\ UNCHANGED <<obj, pin, pout>>

fbula(c) ==
    /\ InLoop(c, "fbula")
    /\ inv' = [inv EXCEPT ![c] = fbula_body(obj, inv[c])]
    /\ UNCHANGED <<obj, pin, pout>>

lbmumla(c) ==
    /\ InLoop(c, "lbmumla")
    /\ inv' = [inv EXCEPT ![c] = lbmumla_body(obj, inv[c])]
    /\ UNCHANGED <<obj, pin, pout>>

(* Mutant of Return: the method may return before the loop is exhausted.  *)
Return_partial(c) ==
    /\ inv[c].pc = "run"
    /\ inv' = [inv EXCEPT ![c] = Finish(inv[c])]
    /\ UNCHANGED <<obj, pin, pout>>

(* The loop is exhausted and the method returns.                           *)
Return(c) ==
    /\ inv[c].pc = "run"
    /\ inv[c].k >= obj.n
    /\ inv' = [inv EXCEPT ![c] = Finish(inv[c])]
    /\ UNCHANGED <<obj, pin, pout>>

Next ==
    \E c \in Chains :
        \/ Call(c)
        \/ pgld(c)
        \/ myula(c)
        \/ mymala(c)
        \/ ppula(c)
        \/ fbula(c)
        \/ lbmumla(c)
        \/ Return(c)

Spec == Init /\ [][Next]_vars

(* The same method run alone, start to end, on an object with the fields   *)
(* of self.                                                                *)
Body(self, l) ==
    CASE l.sampler = "pgld" -> pgld_body(self, l)
      [] l.sampler = "myula" -> myula_body(self, l)
      [] l.sampler = "mymala" -> mymala_body(self, l)
      [] l.sampler = "ppula" -> ppula_body(self, l)
      [] l.sampler = "fbula" -> fbula_body(self, l)
      [] l.sampler = "lbmumla" -> lbmumla_body(self, l)

RECURSIVE RunFrom(_, _)
RunFrom(self, l) ==
    IF l.pc # "run" THEN l
    ELSE IF l.k < self.n THEN RunFrom(self, Body(self, l))
    ELSE Finish(l)

RunAlone(self, sampler, args) == RunFrom(self, Start(self, sampler, args))

-----------------------------------------------------------------------------
(* Properties of the samplers.                                             *)

(* Chain c has just run one iteration of its loop.                         *)
Iterated(c) == inv[c].pc = "run" /\ inv'[c].pc = "run" /\ inv'[c].k = inv[c].k + 1

RECURSIVE CountTrue(_)
CountTrue(s) ==
    IF Len(s) = 0 THEN 0
    ELSE CountTrue(SubSeq(s, 1, Len(s) - 1)) + (IF s[Len(s)] THEN 1 ELSE 0)

C1_State ==
    \A c \in Chains :
        inv[c].sampler \in Unadjusted =>
            /\ Len(inv[c].theta) = inv[c].k
            /\ inv[c].k <= obj.n
            /\ inv[c].pc = "returned" =>
                   /\ inv[c].ret.theta = inv[c].theta
                   /\ Len(inv[c].ret.theta) = obj.n
            /\ inv[c].pc # "returned" => inv[c].ret = NoRet

C1_Step ==
    \A c \in Chains :
        (inv[c].sampler \in Unadjusted /\ Iterated(c)) =>
            inv'[c].theta = Append(inv[c].theta, inv'[c].theta_new)

(* C1. Each unadjusted sampler (pgld, myula, ppula, fbula, lbmumla), for   *)
(* every sample count K, returns a trajectory of exactly K states: every   *)
(* loop iteration appends its state at the end, the method returns only    *)
(* after K iterations, and a call that does not complete returns nothing.  *)
C1_ExactlyK == [](C1_State) /\ [][C1_Step]_vars

C1_Witness ==
    \E c \in Chains :
        /\ inv[c].sampler \in Unadjusted
        /\ inv[c].pc = "returned"
        /\ obj.n >= 2
        /\ Len(inv[c].ret.theta) = obj.n
        /\ inv[c].ret.theta[obj.n] = inv[c].theta_new

(* C2. For every run of mymala with sample count K the returned eff_K      *)
(* satisfies 0 <= eff_K <= K, is the number of accepted proposals and is   *)
(* the length of the returned trajectory.                                  *)
C2_EffectiveCount ==
    \A c \in Chains :
        (inv[c].sampler = "mymala" /\ inv[c].pc = "returned") =>
            /\ 0 <= inv[c].ret.eff_K
            /\ inv[c].ret.eff_K <= obj.n
            /\ Len(inv[c].acc) = obj.n
            /\ inv[c].ret.eff_K = CountTrue(inv[c].acc)
            /\ inv[c].ret.eff_K = Len(inv[c].ret.theta)

C2_Witness ==
    \E c \in Chains :
        /\ inv[c].sampler = "mymala"
        /\ inv[c].pc = "returned"
        /\ 0 < inv[c].ret.eff_K
        /\ inv[c].ret.eff_K < obj.n

(* C3. In mymala a rejected proposal is dropped: the iteration leaves the  *)
(* trajectory and the current state theta0 unchanged; an accepted proposal *)
(* is appended to the trajectory and becomes the current state.            *)
C3_RejectionDrops ==
    [][\A c \in Chains :
         (inv[c].sampler = "mymala" /\ Iterated(c)) =>
             LET accepted == inv'[c].acc[Len(inv'[c].acc)]
             IN  /\ Len(inv'[c].acc) = Len(inv[c].acc) + 1
                 /\ ~accepted =>
                        /\ inv'[c].theta = inv[c].theta
                        /\ inv'[c].theta0 = inv[c].theta0
                 /\ accepted =>
                        /\ inv'[c].theta = Append(inv[c].theta, inv'[c].theta_new)
                        /\ inv'[c].theta0 = inv'[c].theta_new]_vars

C3_Witness ==
    \E c \in Chains :
        /\ inv[c].sampler = "mymala"
        /\ inv[c].k = 2
        /\ inv[c].acc = <<TRUE, FALSE>>
        /\ Len(inv[c].theta) = 1
        /\ inv[c].theta0 = inv[c].theta[1]
        /\ inv[c].theta0 # inv[c].theta_new

(* C4. In every mymala iteration the acceptance probability alpha is       *)
(* min(1, p), p the product of the density ratio and the proposal density  *)
(* ratio, and lies in [0,1]; the proposal is accepted exactly when the     *)
(* uniform draw u of [0,1) satisfies u <= alpha, so a proposal with        *)
(* p >= 1 is always accepted.                                              *)
C4_AcceptanceProbability ==
    [][\A c \in Chains :
         (inv[c].sampler = "mymala" /\ Iterated(c)) =>
             LET l == inv'[c]
                 accepted == l.acc[Len(l.acc)]
             IN  /\ l.p = prob(obj, l.theta_new, inv[c].theta0, l.args.gamma)
                 /\ RLt(l.p, GOne) => l.alpha = l.p
                 /\ RLe(GOne, l.p) => l.alpha = GOne
                 /\ RLe(0, l.alpha) /\ RLe(l.alpha, GOne)
                 /\ RLe(0, l.u) /\ RLt(l.u, GOne)
                 /\ accepted <=> RLe(l.u, l.alpha)
                 /\ RLe(GOne, l.p) => accepted]_vars

C4_Witness ==
    \E c \in Chains :
        /\ inv[c].sampler = "mymala"
        /\ inv[c].k > 0
        /\ RLt(0, inv[c].p)
        /\ RLt(inv[c].p, GOne)
        /\ inv[c].alpha = inv[c].p
        /\ RLe(inv[c].u, inv[c].alpha)
        /\ inv[c].acc[Len(inv[c].acc)]

(* C5. Reproducibility: two invocations of a sampler with the same seed    *)
(* and the same parameters, in any order relative to each other and to     *)
(* other calls, return identical trajectories and, for mymala, identical   *)
(* effective counts.                                                       *)
C5_Reproducible ==
    \A c1, c2 \in Chains :
        ( /\ inv[c1].pc = "returned"
          /\ inv[c2].pc = "returned"
          /\ inv[c1].sampler = inv[c2].sampler
          /\ inv[c1].args = inv[c2].args ) =>
            /\ inv[c1].ret.theta = inv[c2].ret.theta
            /\ inv[c1].ret.eff_K = inv[c2].ret.eff_K

C5_Witness ==
    \E c1, c2 \in Chains :
        /\ c1 # c2
        /\ inv[c1].pc = "returned"
        /\ inv[c2].pc = "returned"
        /\ inv[c1].sampler = "mymala"
        /\ inv[c2].sampler = "mymala"
        /\ inv[c1].args = inv[c2].args
        /\ Len(inv[c1].ret.theta) >= 1
        /\ inv[c1].ret = inv[c2].ret

(* C6. Independent chains: when two invocations on the same object are     *)
(* interleaved at iteration granularity, no step writes a field of the     *)
(* object, a step of one invocation changes nothing of the other (its      *)
(* generator and trajectory included), and each invocation returns what    *)
(* the same call returns when run alone.                                   *)
C6_IndependentChains ==
    [][/\ obj' = obj
       /\ \A c \in Chains :
              /\ inv'[c] # inv[c] => inv'[Other(c)] = inv[Other(c)]
              /\ (inv[c].pc = "run" /\ inv'[c].pc = "returned") =>
                     inv'[c].ret = RunAlone(obj, inv[c].sampler, inv[c].args).ret]_vars

C6_Witness ==
    \E c1, c2 \in Chains :
        /\ inv[c1].pc = "returned"
        /\ inv[c2].pc = "returned"
        /\ inv[c1].sampler = "myula"
        /\ inv[c2].sampler = "lbmumla"
        /\ obj.n >= 2
        /\ inv[c1].ret = RunAlone(obj, inv[c1].sampler, inv[c1].args).ret
        /\ inv[c2].ret = RunAlone(obj, inv[c2].sampler, inv[c2].args).ret

(* The configuration of invocation c is invalid: a step size, a           *)
(* regularisation parameter or a sample count that is not positive.        *)
InvalidConfiguration(c) ==
    \/ RLe(inv[c].args.gamma, 0)
    \/ RLe(obj.lamda, 0)
    \/ obj.n <= 0

(* C12. A sampler invoked with an invalid configuration (gamma <= 0,       *)
(* lamda <= 0 or K <= 0) fails with a configuration error before any       *)
(* iteration begins: no random draw is consumed, no state is appended and  *)
(* no trajectory, not even an empty one, is returned.                      *)
C12_InvalidConfigurationFailsFast ==
    \A c \in Chains :
        (inv[c].pc # "idle" /\ InvalidConfiguration(c)) =>
            /\ inv[c].pc = "raised"
            /\ inv[c].rng = default_rng(obj.seed)
            /\ inv[c].k = 0
            /\ inv[c].theta = <<>>
            /\ inv[c].ret = NoRet

(* C13. When a gradient or an acceptance ratio becomes NaN or infinite    *)
(* mid-run the chain aborts at that iteration: no sampler appends a        *)
(* non-finite state to its trajectory or iterates on from one, and mymala  *)
(* never accepts a proposal whose acceptance ratio is NaN.                 *)
C13_NumericFailureAborts ==
    \A c \in Chains :
        /\ \A i \in 1..Len(inv[c].theta) : IsFiniteR(inv[c].theta[i])
        /\ (inv[c].pc = "run" /\ inv[c].k > 0) => IsFiniteR(inv[c].theta0)
        /\ (inv[c].sampler = "mymala" /\ Len(inv[c].acc) > 0
                /\ inv[c].acc[Len(inv[c].acc)]) => inv[c].p # RNaN

C19_State ==
    \A c \in Chains :
        /\ inv[c].pc \in {"idle", "run", "returned"}
        /\ inv[c].k <= obj.n
        /\ inv[c].pc = "returned" =>
               /\ inv[c].k = obj.n
               /\ inv[c].sampler = "mymala" => Len(inv[c].acc) = obj.n

C19_Step ==
    \A c \in Chains :
        inv'[c] # inv[c] =>
            \/ /\ inv[c].pc = "idle"
               /\ inv'[c].pc = "run"
               /\ inv'[c].k = 0
               /\ inv'[c].rng = rng_standard_normal(default_rng(obj.seed))[1]
               /\ inv'[c].theta0 = rng_standard_normal(default_rng(obj.seed))[2]
            \/ /\ inv[c].pc = "run"
               /\ inv'[c].pc = "run"
               /\ inv'[c].k = inv[c].k + 1
            \/ /\ inv[c].pc = "run"
               /\ inv'[c].pc = "returned"
               /\ inv'[c].k = inv[c].k

(* C19. Every sampler invocation goes Initializing -> Running ->           *)
(* Terminated: it seeds its generator and draws the initial state once,    *)
(* performs exactly K loop iterations (mymala: K proposals, accepted or    *)
(* not) and then terminates by returning; it never leaves the loop early,  *)
(* never runs more than K iterations and never initialises again.          *)
C19_Lifecycle == [](C19_State) /\ [][C19_Step]_vars

C20_State ==
    \A c \in Chains :
        /\ inv[c].k = 0 => inv[c].theta = <<>>
        /\ inv[c].sampler \in Unadjusted => Len(inv[c].theta) = inv[c].k
        /\ Len(inv[c].theta) > 0 => inv[c].theta0 = inv[c].theta[Len(inv[c].theta)]

C20_Step ==
    \A c \in Chains :
        /\ inv[c].pc = "idle" => inv'[c].theta = <<>>
        /\ inv[c].pc # "idle" =>
               \/ /\ inv'[c].theta = inv[c].theta
                  /\ inv'[c].theta0 = inv[c].theta0
               \/ /\ inv'[c].k = inv[c].k + 1
                  /\ Len(inv'[c].theta) = Len(inv[c].theta) + 1
                  /\ SubSeq(inv'[c].theta, 1, Len(inv[c].theta)) = inv[c].theta
                  /\ inv'[c].theta0 = inv'[c].theta[Len(inv'[c].theta)]

(* C20. The trajectory is append-only: it is empty when the loop starts    *)
(* (the initial draw theta0 is not in it), an iteration leaves it as it is *)
(* or puts one state at its end, states already in it never change, after  *)
(* an append the chain state theta0 is its last element, and for the       *)
(* unadjusted samplers its length after iteration k is k.                  *)
C20_AppendOnly == [](C20_State) /\ [][C20_Step]_vars

(* A mymala invocation after an accepted and then a rejected proposal,     *)
(* beside a pgld invocation that has appended twice.                       *)
C20_Witness ==
    \E c \in Chains :
        /\ inv[c].sampler = "mymala"
        /\ inv[c].k = 2
        /\ Len(inv[c].theta) = 1
        /\ inv[c].theta0 = inv[c].theta[1]
        /\ inv[Other(c)].sampler = "pgld"
        /\ Len(inv[Other(c)].theta) = 2
        /\ inv[Other(c)].theta[1] # inv[Other(c)].theta[2]

(* C21. In every pgld iteration the current state is first replaced by   *)
(* prox_laplace(state, lamda*alpha), the gradient step on the smooth       *)
(* potential is taken from that point, and the noise sqrt(2*gamma)*xi is   *)
(* added last; the state appended is that sum, with no Moreau-envelope     *)
(* term in it.                                                             *)
C21_PgldOrder ==
    [][\A c \in Chains :
          (inv[c].sampler = "pgld" /\ Iterated(c)) =>
              LET shifted == prox_prox_laplace(inv[c].theta0,
                                               RMul(obj.lamda, obj.alpha))
                  stepped == gd_update(obj, shifted, inv[c].args.gamma)
                  noise == RMul(RSqrt(RMul(GTwo, inv[c].args.gamma)), inv'[c].xi)
              IN  /\ inv'[c].theta_new = RAdd(stepped, noise)
                  /\ inv'[c].theta = Append(inv[c].theta, RAdd(stepped, noise))]_vars

(* The first pgld iteration from the initial draw, where the proximal map  *)
(* moves the state and the other order of the two steps gives another sum. *)
C21_Witness ==
    \E c \in Chains :
        LET theta0 == rng_standard_normal(default_rng(obj.seed))[2]
            shifted == prox_prox_laplace(theta0, RMul(obj.lamda, obj.alpha))
            gamma == inv[c].args.gamma
            noise == RMul(RSqrt(RMul(GTwo, gamma)), inv[c].xi)
        IN  /\ inv[c].sampler = "pgld"
            /\ inv[c].k = 1
            /\ shifted # theta0
            /\ inv[c].theta = <<RAdd(gd_update(obj, shifted, gamma), noise)>>
            /\ inv[c].theta[1] #
                   RAdd(prox_prox_laplace(gd_update(obj, theta0, gamma),
                                          RMul(obj.lamda, obj.alpha)), noise)

(* The exact target at theta, and the proposal density q(a | b): the       *)
(* Gaussian at a whose mean is the MYULA drift from b, covariance 2*gamma. *)
TargetPi(theta) ==
    RMul(density_gaussian_mixture(obj, theta),
         RMul(RDiv(obj.alpha, GTwo),
              RExp(RNeg(RMul(obj.alpha, RAbs(RSub(theta, obj.mu)))))))

Proposal(a, b, gamma) ==
    LET drift == RAdd(RSub(b, RMul(gamma, grad_potential_gaussian_mixture(obj, b))),
                      RMul(RNeg(gamma), grad_Moreau_env(obj, b)))
    IN  NormalPdf(a, drift, RMul(GTwo, gamma))

(* C24. The mymala acceptance ratio of a proposal theta_new from           *)
(* theta_old is pi(theta_new)*q(theta_old | theta_new) over                *)
(* pi(theta_old)*q(theta_new | theta_old), with pi the exact target        *)
(* (mixture density times the Laplace prior, not its Moreau smoothing) and *)
(* q(a | b) the Gaussian at a around the MYULA drift from b.               *)
C24_AcceptanceRatio ==
    [][\A c \in Chains :
          (inv[c].sampler = "mymala" /\ Iterated(c)) =>
              LET new == inv'[c].theta_new
                  old == inv[c].theta0
                  gamma == inv[c].args.gamma
              IN  inv'[c].p =
                      RMul(RDiv(TargetPi(new), TargetPi(old)),
                           RDiv(Proposal(old, new, gamma),
                                Proposal(new, old, gamma)))]_vars

(* A first proposal with a finite ratio, unequal proposal densities in the *)
(* two directions, and a smoothed prior that differs from the exact one.   *)
C24_Witness ==
    \E c \in Chains :
        LET old == rng_standard_normal(default_rng(obj.seed))[2]
            new == inv[c].theta_new
            gamma == inv[c].args.gamma
        IN  /\ inv[c].sampler = "mymala"
            /\ inv[c].k = 1
            /\ IsFiniteR(inv[c].p)
            /\ inv[c].p # 0
            /\ Proposal(old, new, gamma) # Proposal(new, old, gamma)
            /\ smooth_multivariate_laplacian(obj, new) # multivariate_laplacian(obj, new)
            /\ inv[c].p = RMul(RDiv(TargetPi(new), TargetPi(old)),
                               RDiv(Proposal(old, new, gamma),
                                    Proposal(new, old, gamma)))

RECURSIVE AdvanceN(_, _)
AdvanceN(n, s) == IF n = 0 THEN s ELSE AdvanceN(n - 1, Advance(s))

(* C28. Every mymala iteration takes one Gaussian draw and then one        *)
(* uniform draw from the invocation's generator, accepted or rejected; so  *)
(* after k iterations the generator is 2k draws past the initial draw,     *)
(* whatever the accept/reject history.                                     *)
C28_DrawsPerIteration ==
    /\ [][\A c \in Chains :
            (inv[c].sampler = "mymala" /\ Iterated(c)) =>
                LET g == rng_multivariate_normal(inv[c].rng)
                    e == rng_random(g[1])
                IN  /\ inv'[c].xi = g[2]
                    /\ inv'[c].u = e[2]
                    /\ inv'[c].rng = e[1]]_vars
    /\ [](\A c \in Chains :
            (inv[c].sampler = "mymala" /\ inv[c].pc \in {"run", "returned"}) =>
                inv[c].rng = AdvanceN(2 * inv[c].k + 1, default_rng(obj.seed)))

(* Two mymala invocations after two iterations with different accept and   *)
(* reject histories and the same generator state.                          *)
C28_Witness ==
    \E c \in Chains :
        /\ inv[c].sampler = "mymala"
        /\ inv[Other(c)].sampler = "mymala"
        /\ inv[c].k = 2
        /\ inv[Other(c)].k = 2
        /\ inv[c].acc = <<TRUE, FALSE>>
        /\ inv[Other(c)].acc = <<TRUE, TRUE>>
        /\ inv[c].rng = inv[Other(c)].rng

(* C29. The five unadjusted samplers called on the same object each make   *)
(* a fresh generator from the object's seed: all start from the same       *)
(* theta0 and see the same noise xi_1..xi_K, whatever was called before.   *)
C29_CommonRandomNumbers ==
    \A c1, c2 \in Chains :
        ( /\ inv[c1].sampler \in Unadjusted
          /\ inv[c2].sampler \in Unadjusted
          /\ inv[c1].pc \in {"run", "returned"}
          /\ inv[c2].pc \in {"run", "returned"} ) =>
            /\ inv[c1].k = 0 =>
                   inv[c1].theta0 = rng_standard_normal(default_rng(obj.seed))[2]
            /\ inv[c1].k = inv[c2].k =>
                   /\ inv[c1].rng = inv[c2].rng
                   /\ inv[c1].xi = inv[c2].xi

(* fbula has returned after two iterations and lbmumla, called beside it,  *)
(* has done two: same last noise, different states.                        *)
C29_Witness ==
    \E c \in Chains :
        /\ inv[c].sampler = "fbula"
        /\ inv[c].pc = "returned"
        /\ inv[Other(c)].sampler = "lbmumla"
        /\ inv[c].k = 2
        /\ inv[Other(c)].k = 2
        /\ inv[c].xi = inv[Other(c)].xi
        /\ inv[c].theta # inv[Other(c)].theta

-----------------------------------------------------------------------------
(* Library calls: the inputs are drawn at Init, an action applies one      *)
(* operator of prox.py to them and records what it returned.               *)

MaxX == 10
MaxGamma == 4

XS == {Q(k, 4) : k \in -MaxX..MaxX}
GammaS == {Q(k, 2) : k \in 0..MaxGamma}
TauS == {Q(1, 8), Q(1, 2), Q(2, 1)}

InitProx ==
    /\ pin \in [x : XS, gamma : GammaS, tau : TauS, prox : ProxNames]
    /\ pout = NoCall
    /\ obj = Construct(<<0>>, <<GOne>>, <<GOne>>, GOne, GOne, 0, 0, 0)
    /\ inv = [c \in Chains |-> Idle]

Call_prox_laplace ==
    /\ pout' = Returned("prox_laplace", prox_laplace(pin.x, pin.gamma))
    /\ UNCHANGED <<pin, obj, inv>>

Call_prox_gaussian ==
    /\ pout' = Returned("prox_gaussian", prox_gaussian(pin.x, pin.gamma))
    /\ UNCHANGED <<pin, obj, inv>>

Call_prox_exp ==
    /\ pout' = Returned("prox_exp", prox_exp(pin.x, pin.gamma))
    /\ UNCHANGED <<pin, obj, inv>>

Call_prox_uniform ==
    /\ pout' = Returned("prox_uniform", prox_uniform(pin.x, pin.gamma))
    /\ UNCHANGED <<pin, obj, inv>>

Call_prox_huber ==
    /\ pout' = Returned("prox_huber", prox_huber(pin.x, pin.gamma, pin.tau))
    /\ UNCHANGED <<pin, obj, inv>>

(* 1/gamma on a Python float raises ZeroDivisionError when gamma is 0.     *)
Call_prox_conjugate ==
    /\ pout' = IF pin.gamma = Zero THEN Raised("prox_conjugate")
               ELSE Returned("prox_conjugate",
                             prox_conjugate(pin.x, pin.gamma, pin.prox))
    /\ UNCHANGED <<pin, obj, inv>>

NextProx ==
    \/ Call_prox_laplace
    \/ Call_prox_gaussian
    \/ Call_prox_exp
    \/ Call_prox_uniform
    \/ Call_prox_huber
    \/ Call_prox_conjugate

SpecProx == InitProx /\ [][NextProx]_vars

-----------------------------------------------------------------------------
(* Properties of the proximal operator library.                            *)

(* C7. Soft-threshold correctness: for all x and gamma >= 0,               *)
(* prox_laplace(x, gamma) is 0 when |x| <= gamma and x - gamma*sign(x)     *)
(* otherwise; at gamma = 0 it is the identity.                             *)
C7_SoftThreshold ==
    pout.op = "prox_laplace" =>
        /\ QLe(QAbs(pin.x), pin.gamma) => pout.val = Zero
        /\ ~QLe(QAbs(pin.x), pin.gamma) =>
               pout.val = QSub(pin.x, QMul(pin.gamma, QSign(pin.x)))
        /\ pin.gamma = Zero => pout.val = pin.x

C7_Witness ==
    /\ pout.op = "prox_laplace"
    /\ QLt(Zero, pin.gamma)
    /\ QLt(pin.gamma, QAbs(pin.x))
    /\ QLt(pin.x, Zero)
    /\ pout.val = QAdd(pin.x, pin.gamma)

(* C8. Moreau identity: prox_conjugate(x, gamma, prox_f) equals            *)
(* x - gamma * prox_f(x/gamma, 1/gamma) for every (x, step) operator of    *)
(* the library and every gamma > 0.                                        *)
C8_MoreauIdentity ==
    (pout.op = "prox_conjugate" /\ QLt(Zero, pin.gamma)) =>
        LET xs == QDiv(pin.x, pin.gamma)
            gs == QDiv(One, pin.gamma)
            pf == CASE pin.prox = "prox_laplace" -> prox_laplace(xs, gs)
                    [] pin.prox = "prox_gaussian" -> prox_gaussian(xs, gs)
                    [] pin.prox = "prox_exp" -> prox_exp(xs, gs)
                    [] pin.prox = "prox_uniform" -> prox_uniform(xs, gs)
        IN  /\ ~pout.raised
            /\ pout.val = QSub(pin.x, QMul(pin.gamma, pf))

C8_Witness ==
    /\ pout.op = "prox_conjugate"
    /\ pin.prox = "prox_gaussian"
    /\ pin.gamma = Q(1, 2)
    /\ pin.x = Q(5, 2)
    /\ pout.val = Q(2, 1)

(* C30. For all x and gamma > 0, prox_conjugate(x, gamma, prox_laplace) is *)
(* the projection of x onto [-1, 1]: x when |x| <= 1 and sign(x)           *)
(* otherwise, the same for every gamma, and unchanged when the operator    *)
(* is applied to it again.                                                 *)
C30_ProjectionOntoUnitBall ==
    (pout.op = "prox_conjugate" /\ pin.prox = "prox_laplace"
        /\ QLt(Zero, pin.gamma)) =>
        /\ ~pout.raised
        /\ QLe(QAbs(pin.x), One) => pout.val = pin.x
        /\ QLt(One, QAbs(pin.x)) => pout.val = QSign(pin.x)
        /\ \A g \in GammaS :
               QLt(Zero, g) =>
                   /\ prox_conjugate(pin.x, g, "prox_laplace") = pout.val
                   /\ prox_conjugate(pout.val, g, "prox_laplace") = pout.val

(* A point outside the interval, projected onto its end with a step that   *)
(* is not 1.                                                               *)
C30_Witness ==
    /\ pout.op = "prox_conjugate"
    /\ pin.prox = "prox_laplace"
    /\ pin.gamma = Q(1, 2)
    /\ pin.x = Q(-5, 2)
    /\ pout.val = Q(-1, 1)

(* C9. prox_laplace is monotone and non-expansive in x: for gamma >= 0     *)
(* and x <= y, prox(x) <= prox(y) and |prox(x) - prox(y)| <= |x - y|.      *)
C9_MonotoneNonExpansive ==
    pout.op = "prox_laplace" =>
        \A y \in XS :
            QLe(pin.x, y) =>
                LET py == prox_laplace(y, pin.gamma)
                IN  /\ QLe(pout.val, py)
                    /\ QLe(QAbs(QSub(pout.val, py)), QAbs(QSub(pin.x, y)))

C9_Witness ==
    /\ pout.op = "prox_laplace"
    /\ pin.gamma = One
    /\ pin.x = Q(1, 2)
    /\ pout.val = Zero
    /\ prox_laplace(Q(2, 1), pin.gamma) = One

(* C10. Huber continuity: at the branch boundary                           *)
(* |x| = gamma*(2*tau+1)/sqrt(2*tau) the inside value x/(2*tau+1) equals   *)
(* the outside value x - gamma*sqrt(2*tau)*sign(x), and the operator makes *)
(* no jump there: moving from the boundary to any y moves the value by at  *)
(* most |y - x|.                                                           *)
HuberBoundary(gamma, tau) ==
    QDiv(QMul(gamma, QAdd(QMul(Q(2, 1), tau), One)), QSqrt(QMul(Q(2, 1), tau)))

AtHuberBoundary ==
    /\ pout.op = "prox_huber"
    /\ QLt(Zero, pin.gamma)
    /\ QAbs(pin.x) = HuberBoundary(pin.gamma, pin.tau)

C10_HuberContinuity ==
    AtHuberBoundary =>
        LET inside == QDiv(pin.x, QAdd(QMul(Q(2, 1), pin.tau), One))
            outside == QSub(pin.x, QMul(QMul(pin.gamma, QSqrt(QMul(Q(2, 1), pin.tau))),
                                        QSign(pin.x)))
        IN  /\ inside = outside
            /\ pout.val = inside
            /\ \A y \in XS :
                   QLe(QAbs(QSub(prox_huber(y, pin.gamma, pin.tau), pout.val)),
                       QAbs(QSub(y, pin.x)))

C10_Witness ==
    /\ AtHuberBoundary
    /\ pin.tau = Q(2, 1)
    /\ pin.gamma = Q(1, 2)
    /\ pin.x = Q(-5, 4)
    /\ pout.val = Q(-1, 4)
    /\ prox_huber(Q(-9, 4), pin.gamma, pin.tau) = Q(-5, 4)


-----------------------------------------------------------------------------
(* prox_gen_gaussian and prox_max_ent: the inputs are drawn at Init, an    *)
(* action calls one of them and records the outcome.                       *)

Supported == {Q(4, 3), Q(3, 2), Q(3, 1), Q(4, 1)}

PS == Supported \cup {Q(2, 1), One}

KappaS == {Q(1, 2), One}

Outcome(name, r) == [op |-> name, val |-> r.val, raised |-> r.raised, exc |-> r.exc]

InitGen ==
    /\ pin \in [x : XS, gamma : GammaS, tau : TauS, kappa : KappaS, p : PS]
    /\ pout = NoCall
    /\ obj = Construct(<<0>>, <<GOne>>, <<GOne>>, GOne, GOne, 0, 0, 0)
    /\ inv = [c \in Chains |-> Idle]

Call_prox_gen_gaussian ==
    /\ pout' = Outcome("prox_gen_gaussian", prox_gen_gaussian(pin.x, pin.gamma, pin.p))
    /\ UNCHANGED <<pin, obj, inv>>

Call_prox_max_ent ==
    /\ pout' = Outcome("prox_max_ent",
                       prox_max_ent(pin.x, pin.gamma, pin.tau, pin.kappa, pin.p))
    /\ UNCHANGED <<pin, obj, inv>>

NextGen ==
    \/ Call_prox_gen_gaussian
    \/ Call_prox_max_ent

SpecGen == InitGen /\ [][NextGen]_vars

(* The exceptions a function raises on purpose to reject an argument.      *)
ExplicitErrors == {"ValueError", "NotImplementedError", "UnsupportedParameterError"}

(* C11. prox_gen_gaussian called with a shape p outside {4/3, 3/2, 3, 4}   *)
(* fails explicitly with an unsupported-parameter error and returns no     *)
(* value.                                                                  *)
C11_UnsupportedShapeRejected ==
    (pout.op = "prox_gen_gaussian" /\ pin.p \notin Supported) =>
        /\ pout.raised
        /\ pout.exc \in ExplicitErrors

(* 3*gamma*y^2 + y, the left side of the p = 3 prox equation at y >= 0.    *)
CubicLhs(gamma, y) == QMul(y, QAdd(QMul(QMul(Q(3, 1), gamma), y), One))

(* C17. For p = 3 and gamma > 0 the value y of prox_gen_gaussian has the   *)
(* sign of x and |y| solves 3*gamma*y^2 + |y| = |x|: exactly where the     *)
(* square root 1 + 12*gamma*|x| is rational, and otherwise within the one  *)
(* grid step the root is rounded down by; prox_gen_gaussian(2, 1, 3) is    *)
(* 4/6.                                                                    *)
C17_ShapeThree ==
    (pout.op = "prox_gen_gaussian" /\ pin.p = Q(3, 1) /\ QLt(Zero, pin.gamma)) =>
        LET y == QAbs(pout.val)
            r == QAdd(One, QMul(QMul(Q(12, 1), pin.gamma), QAbs(pin.x)))
            step == QDiv(Q(1, 64), QMul(Q(6, 1), pin.gamma))
        IN  /\ ~pout.raised
            /\ QSign(pout.val) = QSign(pin.x)
            /\ QLe(CubicLhs(pin.gamma, y), QAbs(pin.x))
            /\ QLt(QAbs(pin.x), CubicLhs(pin.gamma, QAdd(y, step)))
            /\ (IsSquare(r[1]) /\ IsSquare(r[2])) =>
                   CubicLhs(pin.gamma, y) = QAbs(pin.x)
            /\ (pin.x = Q(2, 1) /\ pin.gamma = One) => pout.val = Q(4, 6)

C17_Witness ==
    /\ pout.op = "prox_gen_gaussian"
    /\ pin.p = Q(3, 1)
    /\ pin.x = Q(-2, 1)
    /\ pin.gamma = One
    /\ pout.val = Q(-2, 3)

(* C18. prox_max_ent returns a prox value for every x and every strictly   *)
(* positive gamma, tau, kappa with a supported shape p: it does not fail   *)
(* on valid arguments.                                                     *)
C18_MaxEntReturns ==
    ( /\ pout.op = "prox_max_ent"
      /\ QLt(Zero, pin.gamma) /\ QLt(Zero, pin.tau) /\ QLt(Zero, pin.kappa)
      /\ pin.p \in Supported ) =>
        /\ ~pout.raised
        /\ IsFinite(pout.val)

-----------------------------------------------------------------------------
(* The library applied to a one-dimensional numpy array x (a sequence).    *)
(* Arithmetic, np.sign, np.abs, np.maximum and np.sqrt act on each         *)
(* element.  A Python `if` or conditional expression takes the truth       *)
(* value of its whole condition: that of the single element of an array    *)
(* of length 1, ValueError for an array of two or more elements, and for   *)
(* an empty array False or ValueError, depending on the numpy release.     *)

ArrOk(elems) == Ok([isarray |-> TRUE, elems |-> elems])

ScalarOk(v) == Ok([isarray |-> FALSE, elems |-> <<v>>])

Truth(cond, emptytruth) ==
    IF Len(cond) = 1 THEN (IF cond[1] THEN "true" ELSE "false")
    ELSE IF Len(cond) = 0 THEN emptytruth
    ELSE "error"

prox_laplace_array(x, gamma) ==
    ArrOk([i \in 1..Len(x) |-> prox_laplace(x[i], gamma)])

prox_uncentered_laplace_array(x, gamma, mu) ==
    ArrOk([i \in 1..Len(x) |-> prox_uncentered_laplace(x[i], gamma, mu)])

prox_gaussian_array(x, gamma) ==
    ArrOk([i \in 1..Len(x) |-> prox_gaussian(x[i], gamma)])

prox_gen_gaussian_array(x, gamma, p) ==
    IF p \in Supported
    THEN ArrOk([i \in 1..Len(x) |-> prox_gen_gaussian(x[i], gamma, p).val])
    ELSE Exc("UnboundLocalError")

prox_huber_array(x, gamma, tau, emptytruth) ==
    LET bound == QDiv(QMul(gamma, QAdd(QMul(Q(2, 1), tau), One)),
                      QSqrt(QMul(Q(2, 1), tau)))
        t == Truth([i \in 1..Len(x) |-> QLe(QAbs(x[i]), bound)], emptytruth)
    IN  IF t = "error" THEN Exc("ValueError")
        ELSE IF t = "true"
        THEN ArrOk([i \in 1..Len(x) |-> QDiv(x[i], QAdd(QMul(Q(2, 1), tau), One))])
        ELSE ArrOk([i \in 1..Len(x) |->
                       QSub(x[i], QMul(QMul(gamma, QSqrt(QMul(Q(2, 1), tau))),
                                       QSign(x[i])))])

prox_smoothed_laplace_array(x, gamma) ==
    ArrOk([i \in 1..Len(x) |-> prox_smoothed_laplace(x[i], gamma)])

prox_exp_array(x, gamma, emptytruth) ==
    LET t == Truth([i \in 1..Len(x) |-> QLe(gamma, x[i])], emptytruth)
    IN  IF t = "error" THEN Exc("ValueError")
        ELSE IF t = "true" THEN ArrOk([i \in 1..Len(x) |-> QSub(x[i], gamma)])
        ELSE ScalarOk(Zero)

prox_gamma_array(x, omega, kappa) ==
    ArrOk([i \in 1..Len(x) |-> prox_gamma(x[i], omega, kappa)])

prox_chi_array(x, kappa) ==
    ArrOk([i \in 1..Len(x) |-> prox_chi(x[i], kappa)])

prox_uniform_array(x, omega, emptytruth) ==
    LET t1 == Truth([i \in 1..Len(x) |-> QLt(x[i], QNeg(omega))], emptytruth)
        t2 == Truth([i \in 1..Len(x) |-> QLt(omega, x[i])], emptytruth)
    IN  IF t1 = "error" THEN Exc("ValueError")
        ELSE IF t1 = "true" THEN ScalarOk(QNeg(omega))
        ELSE IF t2 = "error" THEN Exc("ValueError")
        ELSE IF t2 = "true" THEN ScalarOk(omega)
        ELSE ArrOk(x)

prox_triangular_array(x, omega1, omega2, emptytruth) ==
    LET t1 == Truth([i \in 1..Len(x) |-> QLt(x[i], QDiv(One, omega1))], emptytruth)
        t2 == Truth([i \in 1..Len(x) |-> QLt(QDiv(One, omega2), x[i])], emptytruth)
    IN  IF t1 = "error" THEN Exc("ValueError")
        ELSE IF t1 = "true"
        THEN ArrOk([i \in 1..Len(x) |->
                       QDiv(QAdd(QAdd(x[i], omega1),
                                 QSqrt(QAdd(QMul(QSub(x[i], omega1), QSub(x[i], omega1)),
                                            Q(4, 1)))),
                            Q(2, 1))])
        ELSE IF t2 = "error" THEN Exc("ValueError")
        ELSE IF t2 = "true"
        THEN ArrOk([i \in 1..Len(x) |->
                       QDiv(QAdd(QAdd(x[i], omega2),
                                 QSqrt(QAdd(QMul(QSub(x[i], omega2), QSub(x[i], omega2)),
                                            Q(4, 1)))),
                            Q(2, 1))])
        ELSE ScalarOk(Zero)

MaxLen == 2

ElemS == {Q(-2, 1), Q(-1, 2), Zero, Q(1, 2), Q(2, 1)}

ArrayS == UNION {[1..n -> ElemS] : n \in 0..MaxLen}

InitArr ==
    /\ pin \in [x : ArrayS, gamma : {Q(1, 2), One}, mu : {Q(1, 2)}, p : {Q(3, 1)},
                tau : {Q(1, 2)}, omega : {One}, kappa : {One},
                omega1 : {Q(-1, 1)}, omega2 : {One},
                emptytruth : {"false", "error"}]
    /\ pout = NoCall
    /\ obj = Construct(<<0>>, <<GOne>>, <<GOne>>, GOne, GOne, 0, 0, 0)
    /\ inv = [c \in Chains |-> Idle]

Call_prox_laplace_array ==
    /\ pout' = Outcome("prox_laplace", prox_laplace_array(pin.x, pin.gamma))
    /\ UNCHANGED <<pin, obj, inv>>

Call_prox_uncentered_laplace_array ==
    /\ pout' = Outcome("prox_uncentered_laplace",
                       prox_uncentered_laplace_array(pin.x, pin.gamma, pin.mu))
    /\ UNCHANGED <<pin, obj, inv>>

Call_prox_gaussian_array ==
    /\ pout' = Outcome("prox_gaussian", prox_gaussian_array(pin.x, pin.gamma))
    /\ UNCHANGED <<pin, obj, inv>>

Call_prox_gen_gaussian_array ==
    /\ pout' = Outcome("prox_gen_gaussian",
                       prox_gen_gaussian_array(pin.x, pin.gamma, pin.p))
    /\ UNCHANGED <<pin, obj, inv>>

Call_prox_huber_array ==
    /\ pout' = Outcome("prox_huber",
                       prox_huber_array(pin.x, pin.gamma, pin.tau, pin.emptytruth))
    /\ UNCHANGED <<pin, obj, inv>>

Call_prox_smoothed_laplace_array ==
    /\ pout' = Outcome("prox_smoothed_laplace",
                       prox_smoothed_laplace_array(pin.x, pin.gamma))
    /\ UNCHANGED <<pin, obj, inv>>

Call_prox_exp_array ==
    /\ pout' = Outcome("prox_exp", prox_exp_array(pin.x, pin.gamma, pin.emptytruth))
    /\ UNCHANGED <<pin, obj, inv>>

Call_prox_gamma_array ==
    /\ pout' = Outcome("prox_gamma", prox_gamma_array(pin.x, pin.omega, pin.kappa))
    /\ UNCHANGED <<pin, obj, inv>>

Call_prox_chi_array ==
    /\ pout' = Outcome("prox_chi", prox_chi_array(pin.x, pin.kappa))
    /\ UNCHANGED <<pin, obj, inv>>

Call_prox_uniform_array ==
    /\ pout' = Outcome("prox_uniform",
                       prox_uniform_array(pin.x, pin.omega, pin.emptytruth))
    /\ UNCHANGED <<pin, obj, inv>>

Call_prox_triangular_array ==
    /\ pout' = Outcome("prox_triangular",
                       prox_triangular_array(pin.x, pin.omega1, pin.omega2,
                                             pin.emptytruth))
    /\ UNCHANGED <<pin, obj, inv>>

NextArr ==
    \/ Call_prox_laplace_array
    \/ Call_prox_uncentered_laplace_array
    \/ Call_prox_gaussian_array
    \/ Call_prox_gen_gaussian_array
    \/ Call_prox_huber_array
    \/ Call_prox_smoothed_laplace_array
    \/ Call_prox_exp_array
    \/ Call_prox_gamma_array
    \/ Call_prox_chi_array
    \/ Call_prox_uniform_array
    \/ Call_prox_triangular_array

SpecArr == InitArr /\ [][NextArr]_vars

(* The operator named op applied to the single element x.                  *)
ElementAlone(op, x) ==
    CASE op = "prox_laplace" -> prox_laplace(x, pin.gamma)
      [] op = "prox_uncentered_laplace" -> prox_uncentered_laplace(x, pin.gamma, pin.mu)
      [] op = "prox_gaussian" -> prox_gaussian(x, pin.gamma)
      [] op = "prox_gen_gaussian" -> prox_gen_gaussian(x, pin.gamma, pin.p).val
      [] op = "prox_huber" -> prox_huber(x, pin.gamma, pin.tau)
      [] op = "prox_smoothed_laplace" -> prox_smoothed_laplace(x, pin.gamma)
      [] op = "prox_exp" -> prox_exp(x, pin.gamma)
      [] op = "prox_gamma" -> prox_gamma(x, pin.omega, pin.kappa)
      [] op = "prox_chi" -> prox_chi(x, pin.kappa)
      [] op = "prox_uniform" -> prox_uniform(x, pin.omega)
      [] op = "prox_triangular" -> prox_triangular(x, pin.omega1, pin.omega2)

(* C14. Every elementwise operator of the library applied to an array of   *)
(* any length returns an array of the same shape whose i-th element is     *)
(* the operator applied to the i-th input element alone.                   *)
C14_Vectorised ==
    pout.op # "none" =>
        /\ ~pout.raised
        /\ pout.val.isarray
        /\ Len(pout.val.elems) = Len(pin.x)
        /\ \A i \in 1..Len(pin.x) : pout.val.elems[i] = ElementAlone(pout.op, pin.x[i])

-----------------------------------------------------------------------------
(* prox_weibull, prox_gen_inv_gaussian and prox_pearson_I: each hands its  *)
(* lambda f to scipy.optimize.minimize_scalar(f, bounds, method='bounded') *)
(* and returns res.x.                                                      *)

RECURSIVE QPow(_, _)
QPow(y, n) == IF n = 0 THEN One ELSE QMul(y, QPow(y, n - 1))

(* The points the bounded solver can settle on between lo and hi: the      *)
(* interval cut into SolverN steps, the end points left out.               *)
SolverN == 8

SolverStep(lo, hi) == QDiv(QSub(hi, lo), Q(SolverN, 1))

SolverGrid(lo, hi) ==
    {QAdd(lo, QMul(Q(k, 1), SolverStep(lo, hi))) : k \in 1..(SolverN - 1)}

(* The golden-section fraction (3 - sqrt(5))/2 of the solver's first point. *)
GoldenMean == Q(49, 128)

(* The results the solver can give for f, a function on SolverGrid(lo, hi). *)
(* Finite bounds: it converges to a local minimiser of f in the interval.  *)
(* A bound that is not finite: depending on the scipy release it raises    *)
(* ValueError, or it stops at its first point lo + GoldenMean*(hi - lo),   *)
(* which is not finite, and reports success False (NaN encountered) or,    *)
(* before that test existed, success True.                                 *)
minimize_scalar(f, lo, hi) ==
    IF ~IsFinite(lo) \/ ~IsFinite(hi)
    THEN {Exc("ValueError")}
         \cup {Ok([x |-> QAdd(lo, QMul(GoldenMean, QSub(hi, lo))), success |-> b]) :
                 b \in BOOLEAN}
    ELSE IF QLt(hi, lo) THEN {Exc("ValueError")}
    ELSE {Ok([x |-> y, success |-> TRUE]) :
            y \in {y \in SolverGrid(lo, hi) :
                     \A z \in SolverGrid(lo, hi) :
                         QAbs(QSub(z, y)) = SolverStep(lo, hi) => QLe(f[y], f[z])}}

(* return res.x: the attribute success of res is not read.                 *)
ReturnX(res) ==
    [raised |-> res.raised, exc |-> res.exc,
     val |-> IF res.raised THEN NaN ELSE res.val.x, res |-> res]

prox_weibull_f(x, omega, kappa, p, y) ==
    QSub(QSub(QAdd(QMul(QMul(Q(p, 1), omega), QPow(y, p)), QMul(y, y)), QMul(x, y)),
         kappa)

prox_weibull(x, omega, kappa, p) ==
    {ReturnX(res) :
       res \in minimize_scalar([y \in SolverGrid(Zero, PInf) |->
                                   prox_weibull_f(x, omega, kappa, p, y)],
                               Zero, PInf)}

prox_gen_inv_gaussian_f(x, omega, kappa, rho, y) ==
    QSub(QSub(QAdd(QPow(y, 3), QMul(QSub(omega, x), QMul(y, y))), QMul(kappa, y)), rho)

prox_gen_inv_gaussian(x, omega, kappa, rho) ==
    {ReturnX(res) :
       res \in minimize_scalar([y \in SolverGrid(Zero, PInf) |->
                                   prox_gen_inv_gaussian_f(x, omega, kappa, rho, y)],
                               Zero, PInf)}

prox_pearson_I_f(x, kappa1, kappa2, omega1, omega2, y) ==
    QAdd(QAdd(QSub(QAdd(QSub(QPow(y, 3),
                             QMul(QAdd(QAdd(omega1, omega2), x), QMul(y, y))),
                        QMul(QAdd(QSub(QSub(QMul(omega1, omega2), kappa1), kappa2),
                                  QMul(QAdd(omega1, omega2), x)),
                             y)),
                   QMul(QMul(omega1, omega2), x)),
              QMul(omega1, kappa2)),
         QMul(omega2, kappa1))

prox_pearson_I(x, kappa1, kappa2, omega1, omega2) ==
    {ReturnX(res) :
       res \in minimize_scalar([y \in SolverGrid(omega1, omega2) |->
                                   prox_pearson_I_f(x, kappa1, kappa2, omega1, omega2, y)],
                               omega1, omega2)}

SolveOutcome(name, r) ==
    [op |-> name, val |-> r.val, raised |-> r.raised, exc |-> r.exc, res |-> r.res]

InitSolve ==
    /\ pin \in [x : {Q(k, 2) : k \in -4..4}, omega : {Q(1, 2), One},
                kappa : {Q(1, 2), One}, rho : {One}, p : {1, 2},
                kappa2 : {Q(1, 2), One}, omega1 : {Q(-1, 1), Zero},
                omega2 : {One, Q(2, 1)}]
    /\ pout = NoCall
    /\ obj = Construct(<<0>>, <<GOne>>, <<GOne>>, GOne, GOne, 0, 0, 0)
    /\ inv = [c \in Chains |-> Idle]

Call_prox_weibull ==
    /\ \E r \in prox_weibull(pin.x, pin.omega, pin.kappa, pin.p) :
           pout' = SolveOutcome("prox_weibull", r)
    /\ UNCHANGED <<pin, obj, inv>>

Call_prox_gen_inv_gaussian ==
    /\ \E r \in prox_gen_inv_gaussian(pin.x, pin.omega, pin.kappa, pin.rho) :
           pout' = SolveOutcome("prox_gen_inv_gaussian", r)
    /\ UNCHANGED <<pin, obj, inv>>

Call_prox_pearson_I ==
    /\ \E r \in prox_pearson_I(pin.x, pin.kappa, pin.kappa2, pin.omega1, pin.omega2) :
           pout' = SolveOutcome("prox_pearson_I", r)
    /\ UNCHANGED <<pin, obj, inv>>

NextSolve ==
    \/ Call_prox_weibull
    \/ Call_prox_gen_inv_gaussian
    \/ Call_prox_pearson_I

SpecSolve == InitSolve /\ [][NextSolve]_vars

(* The stationarity polynomial of the operator called, at y.               *)
Stationarity(y) ==
    CASE pout.op = "prox_weibull" ->
            prox_weibull_f(pin.x, pin.omega, pin.kappa, pin.p, y)
      [] pout.op = "prox_gen_inv_gaussian" ->
            prox_gen_inv_gaussian_f(pin.x, pin.omega, pin.kappa, pin.rho, y)
      [] pout.op = "prox_pearson_I" ->
            prox_pearson_I_f(pin.x, pin.kappa, pin.kappa2, pin.omega1, pin.omega2, y)

(* Points of the admissible domain where a root is looked for, and the     *)
(* distance from a root that counts as solver tolerance.                   *)
DomainPoints ==
    IF pout.op = "prox_pearson_I" THEN SolverGrid(pin.omega1, pin.omega2)
    ELSE {Q(k, 4) : k \in 0..16}

Tolerance ==
    IF pout.op = "prox_pearson_I" THEN SolverStep(pin.omega1, pin.omega2)
    ELSE Q(1, 4)

Roots == {y \in DomainPoints : Stationarity(y) = Zero}

InDomain(y) ==
    IF pout.op = "prox_pearson_I"
    THEN QLt(pin.omega1, y) /\ QLt(y, pin.omega2)
    ELSE IsFinite(y) /\ QLe(Zero, y)

(* C15. For prox_weibull, prox_gen_inv_gaussian and prox_pearson_I the     *)
(* returned y* lies in the admissible domain and is, up to solver          *)
(* tolerance, a root of the stationarity polynomial whenever a root        *)
(* exists in the domain.                                                   *)
C15_ReturnsRoot ==
    (pout.op # "none" /\ Roots # {}) =>
        /\ ~pout.raised
        /\ InDomain(pout.val)
        /\ \E r \in Roots : QLe(QAbs(QSub(pout.val, r)), Tolerance)

(* C16. When the bounded solver does not converge the operator raises a    *)
(* convergence error and does not return the solver's last iterate.        *)
C16_NonConvergenceSurfaced ==
    (pout.op # "none" /\ ~pout.res.raised /\ ~pout.res.val.success) =>
        /\ pout.raised
        /\ pout.exc = "ConvergenceError"

-----------------------------------------------------------------------------
(* Methods of ProximalLangevinMonteCarlo called on their own: the object   *)
(* and the arguments are drawn at Init, an action calls one method and     *)
(* records what it returned.  The numbers are the samplers' grid numbers.  *)

MaxTheta == 8
MaxT == 2

MethodObjects ==
    { Construct(<<0>>, <<GOne>>, <<GOne>>, lamda, alpha, mu, 0, 0) :
        lamda \in {G(1, 4), GOne}, alpha \in {0, G(1, 2), GOne},
        mu \in {0, G(1, 2)} }

ThetaS == {G(k, 4) : k \in -MaxTheta..MaxTheta}
BetaS == {G(1, 2), GOne}
ShiftS == {G(-1, 2), G(1, 2), GOne}
QS == {GOne, GTwo, G(32, 1), G(64, 1)}

InitMethod ==
    /\ obj \in MethodObjects
    /\ \E beta \in BetaS, gamma \in ShiftS :
         \E theta \in ThetaS \cup {RMul(beta, RSinh(gamma)),
                                   RMul(beta, RSinh(RNeg(gamma)))} :
           \E Q_ \in QS, t \in 0..MaxT :
               pin = [theta |-> theta, beta |-> beta, gamma |-> gamma,
                      Q_ |-> Q_, t |-> t]
    /\ pout = [op |-> "none"]
    /\ inv = [c \in Chains |-> Idle]

Call_preconditioned_prox ==
    /\ LET r == preconditioned_prox(obj, pin.theta, obj.lamda, pin.Q_, pin.t)
       IN  pout' = [op |-> "preconditioned_prox", raised |-> r.raised, val |-> r.val,
                    rho |-> r.rho, eps |-> r.eps, eta |-> r.eta]
    /\ UNCHANGED <<pin, obj, inv>>

Call_left_bregman_prox_ell_one_hypent ==
    /\ \E isfloat \in BOOLEAN :
           pout' = [op |-> "left_bregman_prox_ell_one_hypent", isfloat |-> isfloat,
                    val |-> left_bregman_prox_ell_one_hypent(obj, isfloat, pin.theta,
                                                             pin.beta, pin.gamma)]
    /\ UNCHANGED <<pin, obj, inv>>

Call_grad_Moreau_env ==
    /\ pout' = [op |-> "grad_Moreau_env", val |-> grad_Moreau_env(obj, pin.theta)]
    /\ UNCHANGED <<pin, obj, inv>>

NextMethod ==
    \/ Call_preconditioned_prox
    \/ Call_left_bregman_prox_ell_one_hypent
    \/ Call_grad_Moreau_env

SpecMethod == InitMethod /\ [][NextMethod]_vars

(* u after t sweeps from w = 0; before the first sweep u = x - Q*0.        *)
AfterSweeps(x, gamma, Q_, eta, t) ==
    preconditioned_prox_sweeps(x, gamma, Q_, eta, t, <<RSub(x, RMul(Q_, 0)), 0>>)[1]

(* C22. For every iteration count t >= 0 preconditioned_prox performs      *)
(* exactly t sweeps from w = 0, terminates and returns u, a value of the   *)
(* shape of x.                                                             *)
C22_ExactlyTSweeps ==
    pout.op = "preconditioned_prox" =>
        /\ ~pout.raised
        /\ pout.val = AfterSweeps(pin.theta, obj.lamda, pin.Q_, pout.eta, pin.t)

(* C23. In preconditioned_prox, for every rho = 1/||Q||_2 > 0, eps lies    *)
(* between the floor 1e-9 and min(1, rho) - 1e-5, and eta = rho - eps      *)
(* satisfies 0 < eta < rho.                                                *)
C23_StepInsideInterval ==
    (pout.op = "preconditioned_prox" /\ RLt(0, pout.rho)) =>
        /\ RLe(EpsFloor, pout.eps)
        /\ RLe(pout.eps, RSub(PyMin(GOne, pout.rho), EpsMargin))
        /\ RLt(0, pout.eta)
        /\ RLt(pout.eta, pout.rho)

(* The three branch conditions of the operator for the call's arguments.   *)
Above == RLt(RMul(pin.beta, RSinh(pin.gamma)), pin.theta)
Below == RLt(pin.theta, RMul(pin.beta, RSinh(RNeg(pin.gamma))))

BranchValue ==
    LET s == RArcsinh(RDiv(pin.theta, pin.beta))
    IN  IF Above THEN RMul(pin.beta, RSinh(RSub(s, pin.gamma)))
        ELSE IF Below THEN RMul(pin.beta, RSinh(RAdd(s, pin.gamma)))
        ELSE RSub(RSqrt(RAdd(RMul(pin.theta, pin.theta), RMul(pin.beta, pin.beta))),
                  pin.beta)

(* C25. For beta > 0 and gamma > 0 and every theta, the boundary points    *)
(* +-beta*sinh(gamma) included, exactly one branch of                      *)
(* left_bregman_prox_ell_one_hypent applies, the scalar path and the       *)
(* array path take the same one, and the value on a one-element array is   *)
(* the value on the scalar.                                                *)
C25_PathsAgree ==
    (pout.op = "left_bregman_prox_ell_one_hypent"
        /\ RLt(0, pin.beta) /\ RLt(0, pin.gamma)) =>
        /\ ~(Above /\ Below)
        /\ pout.val = BranchValue
        /\ pout.val = left_bregman_prox_ell_one_hypent(obj, ~pout.isfloat, pin.theta,
                                                       pin.beta, pin.gamma)

(* The array path called at the upper boundary point, where the middle     *)
(* branch applies and the upper branch would give another value.           *)
C25_Witness ==
    /\ pout.op = "left_bregman_prox_ell_one_hypent"
    /\ ~pout.isfloat
    /\ RLt(0, pin.gamma)
    /\ pin.theta = RMul(pin.beta, RSinh(pin.gamma))
    /\ pout.val = RSub(RSqrt(RAdd(RMul(pin.theta, pin.theta),
                                  RMul(pin.beta, pin.beta))), pin.beta)
    /\ pout.val # RMul(pin.beta,
                       RSinh(RSub(RArcsinh(RDiv(pin.theta, pin.beta)), pin.gamma)))

(* C26. grad_Moreau_env(theta) is (theta - prox_laplace(theta,             *)
(* lamda*alpha))/lamda: theta/lamda when |theta| <= lamda*alpha and        *)
(* alpha*sign(theta) otherwise, so its magnitude is at most alpha.         *)
C26_EnvelopeGradient ==
    pout.op = "grad_Moreau_env" =>
        LET thr == RMul(obj.lamda, obj.alpha)
        IN  /\ pout.val = RDiv(RSub(pin.theta, prox_prox_laplace(pin.theta, thr)),
                               obj.lamda)
            /\ RLe(RAbs(pin.theta), thr) => pout.val = RDiv(pin.theta, obj.lamda)
            /\ RLt(thr, RAbs(pin.theta)) => pout.val = RMul(obj.alpha, Sgn(pin.theta) * GOne)
            /\ RLe(RAbs(pout.val), obj.alpha)

(* A call beyond the threshold with lamda below 1: the gradient is alpha.  *)
C26_Witness ==
    /\ pout.op = "grad_Moreau_env"
    /\ obj.lamda = G(1, 4)
    /\ obj.alpha = G(1, 2)
    /\ pin.theta = GOne
    /\ pout.val = G(1, 2)

(* C27. grad_Moreau_env is the envelope gradient of the prior the target   *)
(* uses: for every prior location mu it equals                             *)
(* (theta - prox_uncentered_laplace(theta, lamda*alpha, mu))/lamda.        *)
C27_SamePrior ==
    pout.op = "grad_Moreau_env" =>
        pout.val = RDiv(RSub(pin.theta,
                             self_prox_uncentered_laplace(obj, pin.theta,
                                 RMul(obj.lamda, obj.alpha), obj.mu)),
                        obj.lamda)

=============================================================================
